---- MODULE Spec2Model ----
(***************************************************************************)
(* ccmonitor (src/ccmonitor.js): incremental ingestion of Claude Code logs *)
(* into an hourly cache, its persisted store, and the 5-hour rolling view. *)
(*                                                                         *)
(* Units.  Timestamps are minutes.  Costs are integers in 1e-5 USD, and    *)
(* rates are in 1e-5 USD per 1000 tokens (0.003 USD is 300); the token     *)
(* counts used are such that tokens / 1000 * rate is an exact integer, and *)
(* the sums below are the sums the code computes, up to floating-point     *)
(* rounding, which is not modelled.                                        *)
(***************************************************************************)
EXTENDS Integers, Sequences, FiniteSets, TLC

VARIABLES
    files,      \* the source tree: file -> [lines, mtime]; mtime 0 = no such file
    store,      \* the persisted store usage-log.jsonl: [exists, lines]
    cache,      \* this.cachedHourlyStats: hour key -> HourlyStats
    seen,       \* this.seenMessageIds
    flm,        \* this.fileLastModified: file -> mtime, 0 = no entry
    phase,      \* "down": no process yet; "ready": constructed and initialized
    nwrites,    \* number of external writes so far (bounded by MaxWrites)
    last,       \* the last step taken and what it returned
    foldCount,  \* per message ID: folds since the last initializeCache
    cacheIds,   \* per message ID: how many times its fact is in the cache sums
    storeIds,   \* per message ID: how many times its fact is in the store sums
    roll,       \* the rolling view: its arguments and the rows it produced
    calc        \* getHourKey, calculateCost or main called alone: arguments, result

vars == <<files, store, cache, seen, flm, phase, nwrites, last, foldCount,
          cacheIds, storeIds, roll, calc>>

ingestVars == <<files, store, cache, seen, flm, phase, nwrites, last, foldCount,
                cacheIds, storeIds>>

(***************************************************************************)
(* Bounds and input sets                                                   *)
(***************************************************************************)
MaxWrites == 2

\* No new lifetime begins once a fact is in the store sums this many times.
MaxCounted == 2

None == "none"

\* The .jsonl files of the projects tree, in readdir order.
Files == <<"p1/a.jsonl", "p2/b.jsonl">>
FileSet == {Files[k] : k \in 1..Len(Files)}

Ids == {"m1", "m2"}

\* 00:30 and 07:30 of day 0; Now (Date.now()) is 08:00.
Timestamps == {30, 450}
Now == 8 * 60

Sonnet == "claude-sonnet-4-20250514"
Opus == "claude-opus-4-20250514"
Haiku == "claude-haiku-3.5-20241022"

ZeroUsage ==
    [input_tokens |-> 0, output_tokens |-> 0,
     cache_creation_input_tokens |-> 0, cache_read_input_tokens |-> 0,
     model |-> Sonnet]

Usages ==
    { ZeroUsage,
      [input_tokens |-> 1000, output_tokens |-> 500,
       cache_creation_input_tokens |-> 1000, cache_read_input_tokens |-> 0,
       model |-> None] }

\* A second usage: 800 input, 600 output and 500 cache-read tokens on Opus.
OpusUsage ==
    [input_tokens |-> 800, output_tokens |-> 600,
     cache_creation_input_tokens |-> 0, cache_read_input_tokens |-> 500,
     model |-> Opus]

\* The facts of the aggregation runs: at 00:30, 07:30 and 07:50.
FactLines ==
    [type : {"assistant"}, id : Ids, timestamp : Timestamps \cup {470},
     hasUsage : {TRUE}, usage : (Usages \ {ZeroUsage}) \cup {OpusUsage}]

\* A line that parses but is no assistant usage record.
OtherLine ==
    [type |-> "user", id |-> "", timestamp |-> 450, hasUsage |-> FALSE,
     usage |-> ZeroUsage]

LogLines ==
    [type : {"assistant"}, id : Ids, timestamp : Timestamps,
     hasUsage : {TRUE}, usage : Usages]
        \cup {OtherLine}

\* The time filters report() scans with: none, --since 07:00, --tail 1.
\* (0 stands for an option that was not given: the code tests it for truthiness.)
NoFilter == [since |-> 0, tail |-> 0]

TimeFilters ==
    { NoFilter, [since |-> 7 * 60, tail |-> 0], [since |-> 0, tail |-> 1] }

\* The filter of a tick of watch mode: no --since, and a tail of one data row
\* plus the five hours of the window.
WatchFilter == [since |-> 0, tail |-> 1 + 5]

(***************************************************************************)
(* Pricing                                                                 *)
(***************************************************************************)
pricingTable ==
    [m \in {Sonnet, Opus, Haiku} |->
        CASE m = Sonnet -> [input |-> 300, output |-> 1500,
                            cacheCreation |-> 370, cacheRead |-> 30]
          [] m = Opus   -> [input |-> 1500, output |-> 7500,
                            cacheCreation |-> 1875, cacheRead |-> 150]
          [] m = Haiku  -> [input |-> 80, output |-> 400,
                            cacheCreation |-> 100, cacheRead |-> 8]]

\* Names that pricingTable[model] finds without their being registered: the
\* properties every object inherits. What is found is truthy and has no rates.
InheritedNames == {"constructor", "toString"}

\* The value of an arithmetic expression with an undefined operand. (Costs are
\* never negative.)
NaN == 0 - 1

calculateCost(inputTokens, outputTokens, cacheCreationTokens, cacheReadTokens, model) ==
    IF model \in InheritedNames THEN NaN
    ELSE
    LET pricing == IF model \in DOMAIN pricingTable
                   THEN pricingTable[model] ELSE pricingTable[Sonnet]
    IN  (inputTokens * pricing.input) \div 1000
        + (outputTokens * pricing.output) \div 1000
        + (cacheCreationTokens * pricing.cacheCreation) \div 1000
        + (cacheReadTokens * pricing.cacheRead) \div 1000

(***************************************************************************)
(* Hour keys                                                               *)
(***************************************************************************)
\* The offsets of local time from UTC, in minutes: UTC, Tokyo, Kolkata and
\* New York.
TimezoneOffsets == {0, 9 * 60, 5 * 60 + 30, 0 - 5 * 60}

\* getFullYear(), getMonth(), getDate() and getHours() of a Date: the fields
\* of local time, as <<day, hour of the day>>.
LocalHourKey(timestamp, offset) ==
    <<((timestamp + offset) \div 60) \div 24, ((timestamp + offset) \div 60) % 24>>

\* "YYYY-MM-DD HH:00" of a timestamp. The processes of the ingestion runs
\* have UTC as their time zone.
getHourKey(timestamp) == LocalHourKey(timestamp, 0)

\* The hour of a record that has none.
UndefinedKey == <<>>

\* a.hour.localeCompare(b.hour) < 0, for an a that has an hour ("YYYY-..." is
\* before "undefined"); without one the call throws, see SortMayThrow.
KeyBefore(a, b) ==
    IF a = UndefinedKey THEN FALSE
    ELSE IF b = UndefinedKey THEN TRUE
    ELSE a[1] < b[1] \/ (a[1] = b[1] /\ a[2] < b[2])

(***************************************************************************)
(* Reading the logs                                                        *)
(***************************************************************************)
\* A line cut short (of a log that is being written, or of the store): its
\* text does not parse.
Truncated(line) == [unparsable |-> line]

\* JSON.parse(line) returns.
ParsesAsJson(line) == "unparsable" \notin DOMAIN line

IsUsageEntry(line) ==
    /\ line.timestamp # 0
    /\ line.type = "assistant"
    /\ line.hasUsage
    /\ line.id # ""

HasTokens(usage) ==
    \/ usage.input_tokens > 0
    \/ usage.output_tokens > 0
    \/ usage.cache_creation_input_tokens > 0
    \/ usage.cache_read_input_tokens > 0

ModelOf(usage) == IF usage.model = None THEN Sonnet ELSE usage.model

\* The entry pushed for a line: the line and its cost.
EntryOf(line) ==
    [timestamp |-> line.timestamp, id |-> line.id, usage |-> line.usage,
     cost |-> calculateCost(line.usage.input_tokens, line.usage.output_tokens,
                            line.usage.cache_creation_input_tokens,
                            line.usage.cache_read_input_tokens,
                            ModelOf(line.usage))]

\* new Date(text) of a text that is no date-time: a Date whose time is NaN.
InvalidDate == NaN

\* entryTime < sinceTime on two Dates: false when one of them is invalid.
DateBefore(entryTime, sinceTime) ==
    entryTime # InvalidDate /\ sinceTime # InvalidDate /\ entryTime < sinceTime

FilteredOutNever(entryTime, timeFilter) == FALSE

\* The time filter of loadClaudeDataIncremental: TRUE when the entry is dropped.
\* (since holds new Date(timeFilter.since), or 0 when the option is absent.)
FilteredOut(entryTime, timeFilter) ==
    \/ timeFilter.since # 0 /\ DateBefore(entryTime, timeFilter.since)
    \/ timeFilter.tail # 0 /\ entryTime < Now - timeFilter.tail * 60

AlreadySeenNever(id, seenIds) == FALSE

\* this.seenMessageIds.has(messageId)
AlreadySeen(id, seenIds) == id \in seenIds

MarkSeenForgets(id, seenIds) == seenIds

\* this.seenMessageIds.add(messageId)
MarkSeen(id, seenIds) == seenIds \cup {id}

AfterParseErrorEndsFile(lines, i) == Len(lines) + 1

\* The line the loop goes on with after a line that did not parse: the catch
\* inside the loop continues with the next one.
AfterParseError(lines, i) == i + 1

\* The lines of one file, from line i on; acc = [seen, entries].
RECURSIVE ScanLines(_, _, _, _)
ScanLines(lines, i, acc, timeFilter) ==
    IF i > Len(lines) THEN acc
    ELSE LET line == lines[i] IN
         IF ~ParsesAsJson(line)
         THEN ScanLines(lines, AfterParseError(lines, i), acc, timeFilter)
         ELSE IF ~IsUsageEntry(line) THEN ScanLines(lines, i + 1, acc, timeFilter)
         ELSE IF AlreadySeen(line.id, acc.seen)
              THEN ScanLines(lines, i + 1, acc, timeFilter)
         ELSE IF FilteredOut(line.timestamp, timeFilter)
              THEN ScanLines(lines, i + 1, acc, timeFilter)
         ELSE ScanLines(lines, i + 1,
                  [seen |-> MarkSeen(line.id, acc.seen),
                   entries |-> IF HasTokens(line.usage)
                               THEN Append(acc.entries, EntryOf(line))
                               ELSE acc.entries],
                  timeFilter)

FileChangedOrSame(lastModified, previousModified) == lastModified >= previousModified

\* The file is read unless lastModified <= previousModified.
FileChanged(lastModified, previousModified) == ~(lastModified <= previousModified)

\* The files from the k-th on; acc = [flm, seen, entries, read]. A file that
\* does not exist (mtime 0) is not listed. When readdir of the project or stat
\* of the file throws (fault "stat"), or readFile does (fault "read", after
\* fileLastModified was set), the catch around the whole scan ends it with the
\* entries found so far.
RECURSIVE ScanFiles(_, _, _, _)
ScanFiles(k, acc, fs, timeFilter) ==
    IF k > Len(Files) THEN acc
    ELSE LET filePath == Files[k]
             lastModified == fs[filePath].mtime
             previousModified == acc.flm[filePath]
         IN  IF lastModified = 0
             THEN ScanFiles(k + 1, acc, fs, timeFilter)
             ELSE IF fs[filePath].fault = "stat"
             THEN acc
             ELSE IF ~FileChanged(lastModified, previousModified)
             THEN ScanFiles(k + 1, acc, fs, timeFilter)
             ELSE IF fs[filePath].fault = "read"
             THEN [acc EXCEPT !.flm[filePath] = lastModified]
             ELSE LET r == ScanLines(fs[filePath].lines, 1,
                               [seen |-> acc.seen, entries |-> acc.entries],
                               timeFilter)
                  IN  ScanFiles(k + 1,
                          [flm |-> [acc.flm EXCEPT ![filePath] = lastModified],
                           seen |-> r.seen,
                           entries |-> r.entries,
                           read |-> acc.read \cup {filePath}],
                          fs, timeFilter)

loadClaudeDataIncremental(fs, fileLastModified, seenIds, timeFilter) ==
    ScanFiles(1, [flm |-> fileLastModified, seen |-> seenIds, entries |-> <<>>,
                  read |-> {}], fs, timeFilter)

\* loadClaudeData: every file in full, with a set of seen IDs of its own.
RECURSIVE LoadFiles(_, _, _)
LoadFiles(k, acc, fs) ==
    IF k > Len(Files) THEN acc
    ELSE IF fs[Files[k]].mtime = 0 THEN LoadFiles(k + 1, acc, fs)
    ELSE IF fs[Files[k]].fault # "none" THEN acc
    ELSE LoadFiles(k + 1, ScanLines(fs[Files[k]].lines, 1, acc, NoFilter), fs)

loadClaudeData(fs) == LoadFiles(1, [seen |-> {}, entries |-> <<>>], fs).entries

(***************************************************************************)
(* The hourly cache                                                        *)
(***************************************************************************)
RECURSIVE Gcd(_, _)
Gcd(a, b) == IF b = 0 THEN a ELSE Gcd(b, a % b)

\* The quotient n / d as a fraction in lowest terms (n, d >= 0).
Quotient(n, d) ==
    IF d = 0 THEN (IF n = 0 THEN <<"NaN">> ELSE <<"Infinity">>)
    ELSE <<n \div Gcd(n, d), d \div Gcd(n, d)>>

ZeroStats(hourKey) ==
    [hour |-> hourKey, inputTokens |-> 0, outputTokens |-> 0, totalTokens |-> 0,
     cost |-> 0, sessionCount |-> 0,
     avgInputPerSession |-> <<0, 1>>, avgOutputPerSession |-> <<0, 1>>]

FoldEntryCacheTokensAsInput(c, entry) ==
    LET hourKey == getHourKey(entry.timestamp)
        stats == IF hourKey \in DOMAIN c THEN c[hourKey] ELSE ZeroStats(hourKey)
        usage == entry.usage
        inTok == stats.inputTokens + usage.input_tokens
                 + usage.cache_creation_input_tokens + usage.cache_read_input_tokens
        outTok == stats.outputTokens + usage.output_tokens
        count == stats.sessionCount + 1
        updated ==
            [hour |-> hourKey, inputTokens |-> inTok, outputTokens |-> outTok,
             totalTokens |-> stats.totalTokens + usage.input_tokens
                             + usage.output_tokens
                             + usage.cache_creation_input_tokens
                             + usage.cache_read_input_tokens,
             cost |-> stats.cost + entry.cost,
             sessionCount |-> count,
             avgInputPerSession |-> Quotient(inTok, count),
             avgOutputPerSession |-> Quotient(outTok, count)]
    IN  [k \in DOMAIN c \cup {hourKey} |-> IF k = hourKey THEN updated ELSE c[k]]

FoldEntryReplacesBucket(c, entry) ==
    LET hourKey == getHourKey(entry.timestamp)
        usage == entry.usage
    IN  [k \in DOMAIN c \cup {hourKey} |->
            IF k = hourKey
            THEN [ZeroStats(hourKey) EXCEPT
                     !.inputTokens = usage.input_tokens,
                     !.outputTokens = usage.output_tokens,
                     !.totalTokens = usage.input_tokens + usage.output_tokens,
                     !.sessionCount = 1]
            ELSE c[k]]

\* The body of collectIncremental's loop for one entry.
FoldEntry(c, entry) ==
    LET hourKey == getHourKey(entry.timestamp)
        stats == IF hourKey \in DOMAIN c THEN c[hourKey] ELSE ZeroStats(hourKey)
        usage == entry.usage
        inTok == stats.inputTokens + usage.input_tokens
        outTok == stats.outputTokens + usage.output_tokens
        count == stats.sessionCount + 1
        updated ==
            [hour |-> hourKey,
             inputTokens |-> inTok,
             outputTokens |-> outTok,
             totalTokens |-> stats.totalTokens + usage.input_tokens
                             + usage.output_tokens
                             + usage.cache_creation_input_tokens
                             + usage.cache_read_input_tokens,
             cost |-> stats.cost + (IF entry.cost = NaN THEN 0 ELSE entry.cost),
             sessionCount |-> count,
             avgInputPerSession |->
                 IF count > 0 THEN Quotient(inTok, count) ELSE <<0, 1>>,
             avgOutputPerSession |->
                 IF count > 0 THEN Quotient(outTok, count) ELSE <<0, 1>>]
    IN  [k \in DOMAIN c \cup {hourKey} |-> IF k = hourKey THEN updated ELSE c[k]]

RECURSIVE FoldEntries(_, _, _)
FoldEntries(c, entries, i) ==
    IF i > Len(entries) THEN c
    ELSE FoldEntries(FoldEntry(c, entries[i]), entries, i + 1)

EmptyCache == [k \in {} |-> ZeroStats(k)]

\* The body of the first loop of collect() for one entry: the averages are
\* left for the second loop.
CollectEntry(hourlyStats, entry) ==
    LET hourKey == getHourKey(entry.timestamp)
        stats == IF hourKey \in DOMAIN hourlyStats THEN hourlyStats[hourKey]
                 ELSE ZeroStats(hourKey)
        usage == entry.usage
        updated ==
            [stats EXCEPT
                !.inputTokens = @ + usage.input_tokens
                                  + usage.cache_creation_input_tokens
                                  + usage.cache_read_input_tokens,
                !.outputTokens = @ + usage.output_tokens,
                !.totalTokens = @ + usage.input_tokens + usage.output_tokens
                                  + usage.cache_creation_input_tokens
                                  + usage.cache_read_input_tokens,
                !.cost = @ + (IF entry.cost = NaN THEN 0 ELSE entry.cost),
                !.sessionCount = @ + 1]
    IN  [k \in DOMAIN hourlyStats \cup {hourKey} |->
            IF k = hourKey THEN updated ELSE hourlyStats[k]]

RECURSIVE CollectEntries(_, _, _)
CollectEntries(hourlyStats, entries, i) ==
    IF i > Len(entries) THEN hourlyStats
    ELSE CollectEntries(CollectEntry(hourlyStats, entries[i]), entries, i + 1)

\* The hourly statistics collect() builds from a full scan of the logs.
collect(fs) ==
    LET hourlyStats == CollectEntries(EmptyCache, loadClaudeData(fs), 1)
    IN  [k \in DOMAIN hourlyStats |->
            [hourlyStats[k] EXCEPT
                !.avgInputPerSession =
                    IF hourlyStats[k].sessionCount > 0
                    THEN Quotient(hourlyStats[k].inputTokens,
                                  hourlyStats[k].sessionCount)
                    ELSE <<0, 1>>,
                !.avgOutputPerSession =
                    IF hourlyStats[k].sessionCount > 0
                    THEN Quotient(hourlyStats[k].outputTokens,
                                  hourlyStats[k].sessionCount)
                    ELSE <<0, 1>>]]

(***************************************************************************)
(* The persisted store                                                     *)
(***************************************************************************)
RECURSIVE SortedKeys(_)
SortedKeys(keys) ==
    IF keys = {} THEN <<>>
    ELSE LET first == CHOOSE a \in keys : \A b \in keys \ {a} : KeyBefore(a, b)
         IN  <<first>> \o SortedKeys(keys \ {first})

\* The value of a numeric field a record does not have.
Undefined == 0 - 2

\* What JSON.stringify writes for an average that is NaN.
Null == <<"null">>

\* A stored line that parses as JSON and is no HourlyStats record: {"foo":1}.
NoHourLine == [foo |-> 1]

\* record.hour of a parsed line.
HourOf(record) == IF "hour" \in DOMAIN record THEN record.hour ELSE UndefinedKey

\* A numeric field of a parsed line.
NumberOf(record, field) ==
    IF field \in DOMAIN record THEN record[field] ELSE Undefined

\* n / d of two fields of a parsed line.
Divide(n, d) ==
    IF n = Undefined \/ d = Undefined THEN <<"NaN">> ELSE Quotient(n, d)

\* JSON.stringify of one record of the cache: the stored line. Fields that are
\* undefined are left out, and NaN is written as null.
StoreLine(stats) ==
    LET avgInput == IF stats.avgInputPerSession = <<"NaN">>
                    THEN Null ELSE stats.avgInputPerSession
        avgOutput == IF stats.avgOutputPerSession = <<"NaN">>
                     THEN Null ELSE stats.avgOutputPerSession
    IN  IF stats.hour = UndefinedKey
        THEN [avgInputPerSession |-> avgInput, avgOutputPerSession |-> avgOutput]
        ELSE [hour |-> stats.hour, inputTokens |-> stats.inputTokens,
              outputTokens |-> stats.outputTokens,
              totalTokens |-> stats.totalTokens,
              cost |-> stats.cost, sessionCount |-> stats.sessionCount,
              avgInputPerSession |-> avgInput,
              avgOutputPerSession |-> avgOutput]

\* The comparator of writeCachedStats reads a.hour.localeCompare: it throws
\* when it is given a record without hour as its first argument. Which
\* record of a pair comes first is up to the engine's sort.
SortMayThrow(c) == UndefinedKey \in DOMAIN c /\ Cardinality(DOMAIN c) >= 2

writeCachedStatsDescending(c) ==
    LET keys == SortedKeys(DOMAIN c)
    IN  [exists |-> TRUE,
         lines |-> [i \in 1..Len(keys) |-> StoreLine(c[keys[Len(keys) + 1 - i]])]]

\* The content writeCachedStats writes.
writeCachedStats(c) ==
    LET keys == SortedKeys(DOMAIN c)
    IN  [exists |-> TRUE, lines |-> [i \in 1..Len(keys) |-> StoreLine(c[keys[i]])]]

HydrateLineAveragesSwapped(record) ==
    [hour |-> HourOf(record),
     inputTokens |-> NumberOf(record, "inputTokens"),
     outputTokens |-> NumberOf(record, "outputTokens"),
     totalTokens |-> NumberOf(record, "totalTokens"),
     cost |-> NumberOf(record, "cost"),
     sessionCount |-> NumberOf(record, "sessionCount"),
     avgInputPerSession |-> Divide(NumberOf(record, "outputTokens"),
                                   NumberOf(record, "sessionCount")),
     avgOutputPerSession |-> Divide(NumberOf(record, "inputTokens"),
                                    NumberOf(record, "sessionCount"))]

\* The record initializeCache builds from one parsed line.
HydrateLine(record) ==
    [hour |-> HourOf(record),
     inputTokens |-> NumberOf(record, "inputTokens"),
     outputTokens |-> NumberOf(record, "outputTokens"),
     totalTokens |-> NumberOf(record, "totalTokens"),
     cost |-> NumberOf(record, "cost"),
     sessionCount |-> NumberOf(record, "sessionCount"),
     avgInputPerSession |-> Divide(NumberOf(record, "inputTokens"),
                                   NumberOf(record, "sessionCount")),
     avgOutputPerSession |-> Divide(NumberOf(record, "outputTokens"),
                                    NumberOf(record, "sessionCount"))]

\* The loop of initializeCache over the lines: a line that does not parse is
\* skipped (the inner try/catch).
RECURSIVE HydrateLines(_, _, _)
HydrateLines(c, lines, i) ==
    IF i > Len(lines) THEN c
    ELSE IF ~ParsesAsJson(lines[i]) THEN HydrateLines(c, lines, i + 1)
    ELSE HydrateLines(
             [k \in DOMAIN c \cup {HourOf(lines[i])} |->
                 IF k = HourOf(lines[i]) THEN HydrateLine(lines[i]) ELSE c[k]],
             lines, i + 1)

\* One try/catch around the whole loop, as in the first initializeCache of
\* the class: one line that does not parse leaves the cache empty.
HydratedCacheAllOrNothing(st) ==
    IF st.exists /\ \A i \in 1..Len(st.lines) : ParsesAsJson(st.lines[i])
    THEN HydrateLines(EmptyCache, st.lines, 1) ELSE EmptyCache

\* The cache initializeCache ends with.
HydratedCache(st) ==
    IF st.exists THEN HydrateLines(EmptyCache, st.lines, 1) ELSE EmptyCache

RECURSIVE EntryIds(_, _)
EntryIds(entries, i) ==
    IF i > Len(entries) THEN {}
    ELSE (IF entries[i].id # "" THEN {entries[i].id} ELSE {})
             \cup EntryIds(entries, i + 1)

\* The seen-ID set initializeCache ends with.
HydratedSeen(fs) == EntryIds(loadClaudeData(fs), 1)

(***************************************************************************)
(* The rolling view (generateRollingUsageOutput; displayRollingUsage is    *)
(* the same computation printed instead of returned)                       *)
(***************************************************************************)
\* At most this many buckets are given to the rolling view.
MaxRecords == 3

\* The hours of the buckets, in hours since 00:00 of day 0: 21:00 and 22:00 of
\* day 1, and 01:00, 02:00 and 03:00 of day 2.
RecordHours == {45, 46, 49, 50, 51}

\* <<cost, totalTokens>> of a bucket: 3, 4 and 5 USD.
RecordLevels == {<<300000, 1000>>, <<400000, 2500>>, <<500000, 4000>>}

\* --cost-limit: not given (0), or 5 USD.
CostLimits == {0, 500000}

\* The row limit: not given (0), 1 or 2.
OutputLineLimits == {0, 1, 2}

TIME_WINDOW == 5

hoursToShow == 24

\* The limit of 10 USD used when costLimit is not given.
DefaultCostLimit == 1000000

COST_LIMIT(costLimit) == IF costLimit # 0 THEN costLimit ELSE DefaultCostLimit

\* The clock of the local zone. At the instant ChangeAt (in hours since 00:00
\* of day 0 on the clock of before: 02:00 of day 2) the clock is set by shift
\* hours: -1 at the end of daylight saving time, 1 at its begin, 0 for a zone
\* that has none.
ChangeAt == 50

ClockChanges == {0, 0 - 1, 1}

\* new Date(hour + ":00").getTime(), in hours: the text is read as local time.
\* A local hour that occurs twice, or not at all, is read with the offset of
\* before the change.
HourTimeIn(hourKey, shift) ==
    LET local == hourKey[1] * 24 + hourKey[2]
    IN  IF local < ChangeAt + (IF shift > 0 THEN shift ELSE 0)
        THEN local ELSE local - shift

\* The hour key "YYYY-MM-DD HH:00" built from getFullYear(), getMonth(),
\* getDate() and getHours() of a Date: the fields of its local time.
FormatHourKeyIn(time, shift) ==
    LET local == IF time >= ChangeAt THEN time + shift ELSE time
    IN  <<local \div 24, local % 24>>

\* The two in a zone without clock changes.
HourTime(hourKey) == HourTimeIn(hourKey, 0)

FormatHourKey(time) == FormatHourKeyIn(time, 0)

\* records.sort((a, b) => b.hour.localeCompare(a.hour)): latest first.
RECURSIVE SortedRecords(_)
SortedRecords(records) ==
    IF records = {} THEN <<>>
    ELSE LET first == CHOOSE a \in records :
                          \A b \in records \ {a} : KeyBefore(b.hour, a.hour)
         IN  <<first>> \o SortedRecords(records \ {first})

ZeroRecord(hourKey) == [hour |-> hourKey, cost |-> 0, totalTokens |-> 0]

\* The rows to display: the records, or in full mode the hoursToShow hours
\* that end with the latest record, a missing hour being a zero record.
\* (latestHour.getTime() - i * 60 * 60 * 1000: hours of elapsed time.)
DisplayRecordsIn(sortedRecords, full, shift) ==
    IF full /\ Len(sortedRecords) > 0
    THEN LET latestHour == HourTimeIn(sortedRecords[1].hour, shift)
         IN  [i \in 1..hoursToShow |->
                 LET hourKey == FormatHourKeyIn(latestHour - (i - 1), shift)
                     found == {j \in 1..Len(sortedRecords) :
                                  sortedRecords[j].hour = hourKey}
                 IN  IF found # {} THEN sortedRecords[CHOOSE j \in found : TRUE]
                     ELSE ZeroRecord(hourKey)]
    ELSE sortedRecords

DisplayRecords(sortedRecords, full) == DisplayRecordsIn(sortedRecords, full, 0)

InWindowInclusive(hoursDiff) == hoursDiff >= 0 /\ hoursDiff <= TIME_WINDOW

InWindow(hoursDiff) == hoursDiff >= 0 /\ hoursDiff < TIME_WINDOW

\* The inner loop: the sums over the records in the window of currentHour.
RECURSIVE RollingSums(_, _, _, _)
RollingSums(sortedRecords, j, currentHour, acc) ==
    IF j > Len(sortedRecords) THEN acc
    ELSE LET record == sortedRecords[j]
             hoursDiff == HourTime(currentHour) - HourTime(record.hour)
         IN  RollingSums(sortedRecords, j + 1, currentHour,
                 IF InWindow(hoursDiff)
                 THEN [rollingCost |-> acc.rollingCost + record.cost,
                       rollingTokens |-> acc.rollingTokens + record.totalTokens]
                 ELSE acc)

\* progressPercent >= percent, for progressPercent = rollingCost / limit * 100.
ProgressAtLeast(rollingCost, limit, percent) == rollingCost * 100 >= percent * limit

colorCode(rollingCost, limit) ==
    IF ProgressAtLeast(rollingCost, limit, 80) THEN "red"
    ELSE IF ProgressAtLeast(rollingCost, limit, 60) THEN "yellow"
    ELSE "green"

AlertRowWhateverTheLimit(rollingCost, limit, maxOutputLines, outputRowCount) ==
    IF ProgressAtLeast(rollingCost, limit, 90) THEN "OVER LIMIT"
    ELSE IF ProgressAtLeast(rollingCost, limit, 80) THEN "HIGH USAGE"
    ELSE ""

\* The alert row that follows a row; outputRowCount counts the row itself.
AlertRow(rollingCost, limit, maxOutputLines, outputRowCount) ==
    IF /\ ProgressAtLeast(rollingCost, limit, 90)
       /\ (maxOutputLines = 0 \/ outputRowCount < maxOutputLines)
    THEN "OVER LIMIT"
    ELSE IF /\ ProgressAtLeast(rollingCost, limit, 80)
            /\ (maxOutputLines = 0 \/ outputRowCount < maxOutputLines)
         THEN "HIGH USAGE"
         ELSE ""

\* The outer loop, from the i-th display record on.
RECURSIVE RollingRows(_, _, _, _, _, _)
RollingRows(displayRecords, sortedRecords, i, outputRowCount, limit, maxOutputLines) ==
    IF i > Len(displayRecords) THEN <<>>
    ELSE IF maxOutputLines # 0 /\ outputRowCount >= maxOutputLines THEN <<>>
    ELSE LET currentRecord == displayRecords[i]
             sums == RollingSums(sortedRecords, 1, currentRecord.hour,
                                 [rollingCost |-> 0, rollingTokens |-> 0])
             alert == AlertRow(sums.rollingCost, limit, maxOutputLines,
                               outputRowCount + 1)
             row == [hour |-> currentRecord.hour,
                     cost |-> currentRecord.cost,
                     rollingCost |-> sums.rollingCost,
                     rollingTokens |-> sums.rollingTokens,
                     color |-> colorCode(sums.rollingCost, limit),
                     alert |-> alert]
         IN  <<row>> \o RollingRows(displayRecords, sortedRecords, i + 1,
                            IF alert # "" THEN outputRowCount + 2
                            ELSE outputRowCount + 1,
                            limit, maxOutputLines)

Min(a, b) == IF a <= b THEN a ELSE b

Max(a, b) == IF a >= b THEN a ELSE b

\* process.stdout.rows (0: not a terminal), --tail (0: not given; --tail=-1 is
\* accepted) and --no-header of watch mode.
WatchOptions ==
    [stdoutRows : {0, 5, 20}, tail : {0, 2, 0 - 1}, noHeader : BOOLEAN]

NoWatchOptions == [stdoutRows |-> 0, tail |-> 0, noHeader |-> FALSE]

\* <<cost, totalTokens>> of the buckets shown in watch mode: 5 USD.
WatchLevel == <<500000, 4000>>

DefaultTerminalRows == 24

terminalRows(stdoutRows) ==
    IF stdoutRows # 0 THEN stdoutRows ELSE DefaultTerminalRows

reservedRows(noHeader) ==
    IF noHeader THEN 1 + 1 + 3 + 1 + 1 ELSE 1 + 1 + 5 + 1 + 3 + 1 + 1 + 4

availableDataRows(stdoutRows, noHeader) ==
    Max(1, terminalRows(stdoutRows) - reservedRows(noHeader))

effectiveTail(tail, available) ==
    IF tail # 0 THEN Min(tail, available) ELSE available

\* The rows of the table generateRollingUsageOutput returns.
RollingOutput(records, full, costLimit, maxOutputLines) ==
    LET sortedRecords == SortedRecords(records)
    IN  RollingRows(DisplayRecords(sortedRecords, full), sortedRecords, 1, 0,
                    COST_LIMIT(costLimit), maxOutputLines)

(***************************************************************************)
(* State                                                                   *)
(***************************************************************************)
NoIds == [id \in Ids |-> 0]

RollIdle == [pc |-> "idle"]

NotCalled == [fn |-> "none"]

\* What a step records about itself.
Step(op) ==
    [op |-> op, ret |-> 0, read |-> {}, unfiltered |-> FALSE, insync |-> FALSE,
     entries |-> <<>>, wrote |-> FALSE, threw |-> FALSE, invalid |-> FALSE]

Init ==
    /\ files = [f \in FileSet |-> [lines |-> <<>>, mtime |-> 0, fault |-> "none"]]
    /\ store = [exists |-> FALSE, lines |-> <<>>]
    /\ cache = EmptyCache
    /\ seen = {}
    /\ flm = [f \in FileSet |-> 0]
    /\ phase = "down"
    /\ nwrites = 0
    /\ last = Step("none")
    /\ foldCount = NoIds
    /\ cacheIds = NoIds
    /\ storeIds = NoIds
    /\ roll = RollIdle
    /\ calc = NotCalled

(***************************************************************************)
(* The external writer (Claude Code) on the source tree                    *)
(***************************************************************************)
External(f, lines) ==
    /\ nwrites < MaxWrites
    /\ nwrites' = nwrites + 1
    /\ files' = [files EXCEPT ![f] = [lines |-> lines, mtime |-> @.mtime + 1,
                                      fault |-> @.fault]]
    /\ last' = Step("ext")
    /\ UNCHANGED <<store, cache, seen, flm, phase, foldCount, cacheIds, storeIds,
                   roll, calc>>

\* A line is appended to a log file.
ExtAppend(f, line) == External(f, Append(files[f].lines, line))

\* The modification time of an existing file changes, its content does not.
ExtTouch(f) == files[f].mtime > 0 /\ External(f, files[f].lines)

\* An existing file is rewritten from scratch (rotated, truncated).
ExtRewrite(f) == files[f].lines # <<>> /\ External(f, <<>>)

(***************************************************************************)
(* The monitor                                                             *)
(***************************************************************************)
\* TRUE when the last step was a scan (no external write came after it) and
\* the store holds the facts the cache holds.
InSync == last.op = "collect" /\ cacheIds = storeIds

\* initializeCache (the second definition of the class, the one in effect);
\* fileLastModified is left as it is.
Initialize(fileLastModified) ==
    /\ \A id \in Ids : storeIds[id] < MaxCounted
    /\ cache' = HydratedCache(store)
    /\ seen' = HydratedSeen(files)
    /\ flm' = fileLastModified
    /\ phase' = "ready"
    /\ foldCount' = NoIds
    /\ cacheIds' = storeIds
    /\ last' = [Step("init") EXCEPT !.insync = InSync]
    /\ UNCHANGED <<files, store, nwrites, storeIds, roll, calc>>

\* A new process: the constructor, then initializeCache, as report() and
\* watchMode() begin.
Start == Initialize([f \in FileSet |-> 0])

\* initializeCache called again on the same object.
InitializeCache == phase = "ready" /\ Initialize(flm)

RECURSIVE CountIds(_, _, _)
CountIds(counts, entries, i) ==
    IF i > Len(entries) THEN counts
    ELSE CountIds([counts EXCEPT ![entries[i].id] = @ + 1], entries, i + 1)

\* collectIncremental(timeFilter); writeOk is whether writeFile succeeds, and
\* sortOk whether the sort of writeCachedStats returns.
\* (scan, folded and counted are bound once each, as the code's constants are.)
Collect(timeFilter, writeOk) ==
    /\ phase = "ready"
    /\ \E scan \in {loadClaudeDataIncremental(files, flm, seen, timeFilter)} :
       \E folded \in {FoldEntries(cache, scan.entries, 1)} :
       \E counted \in {CountIds(cacheIds, scan.entries, 1)} :
       \E sortOk \in (IF Len(scan.entries) > 0 /\ SortMayThrow(folded)
                       THEN BOOLEAN ELSE {TRUE}) :
        /\ flm' = scan.flm
        /\ seen' = scan.seen
        /\ foldCount' = CountIds(foldCount, scan.entries, 1)
        /\ last' = [Step("collect") EXCEPT
                        !.ret = Len(scan.entries),
                        !.read = scan.read,
                        !.entries = scan.entries,
                        !.unfiltered = (timeFilter = NoFilter),
                        !.wrote = (Len(scan.entries) > 0 /\ sortOk /\ writeOk),
                        !.threw = ~sortOk,
                        !.invalid = (timeFilter.since = InvalidDate)]
        /\ IF Len(scan.entries) = 0
           THEN UNCHANGED <<cache, store, cacheIds, storeIds>>
           ELSE /\ cache' = folded
                /\ cacheIds' = counted
                /\ IF sortOk /\ writeOk
                   THEN store' = writeCachedStats(folded) /\ storeIds' = counted
                   ELSE UNCHANGED <<store, storeIds>>
        /\ UNCHANGED <<files, phase, nwrites>>

CollectIncremental(timeFilter, writeOk) ==
    Collect(timeFilter, writeOk) /\ UNCHANGED <<roll, calc>>

Next ==
    \/ \E f \in FileSet, line \in LogLines : ExtAppend(f, line)
    \/ \E f \in FileSet : ExtTouch(f)
    \/ \E f \in FileSet : ExtRewrite(f)
    \/ Start
    \/ InitializeCache
    \/ \E timeFilter \in TimeFilters, writeOk \in BOOLEAN :
           CollectIncremental(timeFilter, writeOk)

Spec == Init /\ [][Next]_vars

(***************************************************************************)
(* The rolling view on its own: any buckets, any options                   *)
(***************************************************************************)
\* What the rolling view was given and the rows of its table.
Rendered(mode, options, records, full, costLimit, maxOutputLines) ==
    [pc |-> "done", mode |-> mode, options |-> options,
     records |-> records, full |-> full,
     limit |-> COST_LIMIT(costLimit),
     maxOutputLines |-> maxOutputLines,
     rows |-> RollingOutput(records, full, costLimit, maxOutputLines)]

GenerateRollingUsageOutput(records, full, costLimit, maxOutputLines) ==
    /\ roll.pc = "idle"
    /\ roll' = Rendered("call", NoWatchOptions, records, full, costLimit,
                        maxOutputLines)
    /\ UNCHANGED <<ingestVars, calc>>

\* The display half of a tick of watchMode: the row limit is derived from the
\* terminal height and --tail.
WatchOutput(options, records, full, costLimit) ==
    Rendered("watch", options, records, full, costLimit,
             effectiveTail(options.tail,
                           availableDataRows(options.stdoutRows, options.noHeader)))

WatchRender(options, records, full) ==
    /\ roll.pc = "idle"
    /\ roll' = WatchOutput(options, records, full, 0)
    /\ UNCHANGED <<ingestVars, calc>>

RecordsAt(hours, level) ==
    {[hour |-> FormatHourKey(h), cost |-> level[h][1],
      totalTokens |-> level[h][2]] : h \in hours}

NextRoll ==
    \/ \E hours \in SUBSET RecordHours :
           /\ Cardinality(hours) <= MaxRecords
           /\ \E level \in [hours -> RecordLevels],
                 full \in BOOLEAN,
                 costLimit \in CostLimits,
                 maxOutputLines \in OutputLineLimits :
                  GenerateRollingUsageOutput(RecordsAt(hours, level), full,
                                             costLimit, maxOutputLines)
    \/ \E hours \in SUBSET RecordHours :
           /\ Cardinality(hours) <= MaxRecords
           /\ \E options \in WatchOptions, full \in BOOLEAN :
                  WatchRender(options,
                              RecordsAt(hours, [h \in hours |-> WatchLevel]),
                              full)

RollSpec == Init /\ [][NextRoll]_vars

(***************************************************************************)
(* Watch mode: one process, a tick after every interval                    *)
(***************************************************************************)
StartWatch == phase = "down" /\ Start

\* The options of the watch loop: no terminal height, --tail 1, with header.
TickOptions == [stdoutRows |-> 0, tail |-> 1, noHeader |-> FALSE]

\* One pass of the loop: collectIncremental, then the table of the records
\* of the cache that have an hour. A failed write of the store throws, and
\* the pass ends without a table.
TickWith(writeOk) ==
    /\ Collect(WatchFilter, writeOk)
    /\ roll' = IF last'.ret > 0 /\ ~last'.wrote THEN roll
               ELSE WatchOutput(TickOptions,
                                {cache'[k] : k \in DOMAIN cache' \ {UndefinedKey}},
                                FALSE, 0)
    /\ UNCHANGED calc

Tick == \E writeOk \in BOOLEAN : TickWith(writeOk)

NextWatch ==
    \/ \E f \in FileSet, line \in LogLines : ExtAppend(f, line)
    \/ StartWatch
    \/ Tick

\* The loop of watchMode runs a tick after every sleep, for as long as it runs.
WatchSpec == Init /\ [][NextWatch]_vars /\ WF_vars(Tick)

\* The same loop on a disk whose failures pass: ticks whose writeFile succeeds
\* keep coming.
RetrySpec == Init /\ [][NextWatch]_vars /\ WF_vars(TickWith(TRUE))

(***************************************************************************)
(* The watch loop with its awaits: a tick waits for the write of the store, *)
(* and a signal is handled while it waits                                  *)
(***************************************************************************)
WatchTable(c) ==
    WatchOutput(TickOptions, {c[k] : k \in DOMAIN c \ {UndefinedKey}}, FALSE, 0)

ScanMayStartWhileWriting(p) == p \in {"ready", "writing"}

\* The loop is at its top: the tick before has returned from its awaits (the
\* scan, the write of the store) and from its sleep.
ScanMayStart(p) == p = "ready"

\* The first half of a tick: the scan and the fold of collectIncremental, up
\* to the await of writeCachedStats. A scan without new entries returns 0,
\* and the tick goes on to its table.
TickScan ==
    /\ ScanMayStart(phase)
    /\ \E scan \in {loadClaudeDataIncremental(files, flm, seen, WatchFilter)} :
       \E folded \in {FoldEntries(cache, scan.entries, 1)} :
       \E counted \in {CountIds(cacheIds, scan.entries, 1)} :
        /\ flm' = scan.flm
        /\ seen' = scan.seen
        /\ foldCount' = CountIds(foldCount, scan.entries, 1)
        /\ IF Len(scan.entries) = 0
           THEN /\ last' = [Step("collect") EXCEPT !.read = scan.read]
                /\ roll' = WatchTable(cache)
                /\ UNCHANGED <<cache, cacheIds, phase>>
           ELSE /\ last' = [Step("scan") EXCEPT
                                !.ret = Len(scan.entries),
                                !.read = scan.read,
                                !.entries = scan.entries]
                /\ cache' = folded
                /\ cacheIds' = counted
                /\ phase' = "writing"
                /\ UNCHANGED roll
    /\ UNCHANGED <<files, store, storeIds, nwrites, calc>>

AfterTickErrorUncaught == "stopped"

\* Where the loop is after a tick that threw: the catch of the loop body logs
\* the error, and the loop sleeps and goes on.
AfterTickError == "ready"

\* The second half: writeCachedStats returns or throws, and the tick ends
\* with its table or in the catch of the loop.
TickWrite(writeOk) ==
    /\ phase = "writing"
    /\ \E sortOk \in (IF SortMayThrow(cache) THEN BOOLEAN ELSE {TRUE}) :
        /\ last' = [last EXCEPT !.op = "collect",
                                !.wrote = (sortOk /\ writeOk),
                                !.threw = ~sortOk]
        /\ IF sortOk /\ writeOk
           THEN /\ store' = writeCachedStats(cache)
                /\ storeIds' = cacheIds
                /\ roll' = WatchTable(cache)
                /\ phase' = "ready"
           ELSE /\ phase' = AfterTickError
                /\ UNCHANGED <<store, storeIds, roll>>
    /\ UNCHANGED <<files, cache, seen, flm, nwrites, foldCount, cacheIds, calc>>

\* What a writeFile that was pending when the process exited leaves: the old
\* content, the new content, or the first lines of the new content with the
\* last of them cut short (none of them: an empty file).
InterruptedStores(st, c) ==
    LET new == writeCachedStats(c).lines
    IN  {st, writeCachedStats(c), [exists |-> TRUE, lines |-> <<>>]}
        \cup {[exists |-> TRUE,
               lines |-> SubSeq(new, 1, n - 1) \o <<Truncated(new[n])>>] :
                 n \in 1..Len(new)}

\* SIGINT or SIGTERM: shutdown() calls process.exit(0) at once, whatever the
\* loop is waiting for.
Signal ==
    /\ phase \in {"ready", "writing"}
    /\ phase' = "stopped"
    /\ store' \in (IF phase = "writing" THEN InterruptedStores(store, cache)
                   ELSE {store})
    /\ storeIds' = IF store' = store THEN storeIds ELSE cacheIds
    /\ UNCHANGED <<files, cache, seen, flm, nwrites, last, foldCount, cacheIds,
                   roll, calc>>

NextLoop ==
    \/ \E f \in FileSet, line \in LogLines : ExtAppend(f, line)
    \/ StartWatch
    \/ TickScan
    \/ \E writeOk \in BOOLEAN : TickWrite(writeOk)
    \/ Signal

LoopSpec == Init /\ [][NextLoop]_vars

(***************************************************************************)
(* getHourKey and calculateCost on their own                               *)
(***************************************************************************)
\* Timestamps of day 1: 14:00, 14:15, 14:45, 14:59, 15:00, 23:30.
HourKeyTimes ==
    {24 * 60 + m : m \in {14 * 60, 14 * 60 + 15, 14 * 60 + 45, 14 * 60 + 59,
                          15 * 60, 23 * 60 + 30}}

\* Model names: the registered ones, one that is not registered, none, and
\* the inherited names.
ModelNames == {Sonnet, Opus, Haiku, "gpt-4", None} \cup InheritedNames

\* getHourKey of two timestamps in a process whose local time is offset
\* minutes ahead of UTC.
GetHourKey(a, b, offset) ==
    /\ calc = NotCalled
    /\ calc' = [fn |-> "getHourKey", a |-> a, b |-> b, offset |-> offset,
                keyA |-> LocalHourKey(a, offset), keyB |-> LocalHourKey(b, offset)]
    /\ UNCHANGED <<ingestVars, roll>>

\* calculateCost for the usage of a record, as the scans call it.
CalculateCost(usage) ==
    /\ calc = NotCalled
    /\ calc' = [fn |-> "calculateCost", usage |-> usage,
                cost |-> calculateCost(usage.input_tokens, usage.output_tokens,
                                       usage.cache_creation_input_tokens,
                                       usage.cache_read_input_tokens,
                                       ModelOf(usage))]
    /\ UNCHANGED <<ingestVars, roll>>

(***************************************************************************)
(* main: the interval of --watch                                           *)
(***************************************************************************)
Digits == {"0", "1", "2", "3", "4", "5", "6", "7", "8", "9"}

DigitValue(c) ==
    CASE c = "0" -> 0 [] c = "1" -> 1 [] c = "2" -> 2 [] c = "3" -> 3
      [] c = "4" -> 4 [] c = "5" -> 5 [] c = "6" -> 6 [] c = "7" -> 7
      [] c = "8" -> 8 [] c = "9" -> 9

\* The digits of text from position i on, read as a number after acc.
RECURSIVE LeadingDigits(_, _, _)
LeadingDigits(text, i, acc) ==
    IF i > Len(text) \/ text[i] \notin Digits THEN acc
    ELSE LeadingDigits(text, i + 1, acc * 10 + DigitValue(text[i]))

\* parseInt(text) of a text (a sequence of characters) without leading
\* blanks: <<n>> for the integer that a sign and the leading digits spell,
\* whatever follows them, and <<>> (NaN) when there is no leading digit.
parseInt(text) ==
    LET signed == Len(text) > 0 /\ text[1] \in {"-", "+"}
        first == IF signed THEN 2 ELSE 1
    IN  IF first > Len(text) \/ text[first] \notin Digits THEN <<>>
        ELSE IF signed /\ text[1] = "-"
             THEN <<0 - LeadingDigits(text, first, 0)>>
             ELSE <<LeadingDigits(text, first, 0)>>

\* The default that main puts after a --watch that has no value.
DefaultInterval == <<"6", "0">>

\* The texts given as interval.
IntervalTexts ==
    { <<"3">>, <<"4">>, <<"5">>, <<"3", "0">>, <<"1", "2", "0">>, <<"0">>,
      <<"a", "b", "c">>, <<"1", "0", "a", "b", "c">>, <<"3", "s">>,
      <<"4", ".", "9">>, <<"5", ".", "5">>, <<"-", "5">>, <<"6", "0", "s">> }

\* How --watch is given: not at all, alone (last, or before another option),
\* as "--watch <text>", or as "--watch=<text>" (the text may be empty).
WatchArgs ==
    {[form |-> "absent", text |-> <<>>], [form |-> "alone", text |-> <<>>],
     [form |-> "equals", text |-> <<>>]}
        \cup [form : {"next", "equals"}, text : IntervalTexts]

Commands == {"rolling", "report", None}

IntervalRejectedBelowFour(watchInterval) ==
    watchInterval = <<>> \/ watchInterval[1] < 4

\* isNaN(watchInterval) || watchInterval < 5
IntervalRejected(watchInterval) ==
    watchInterval = <<>> \/ watchInterval[1] < 5

\* What main does with the command line: "fatal" when parseArgs throws,
\* "rejected" for the error of the interval, else the method it calls.
MainOutcome(command, watch) ==
    LET \* "--watch -5": 60 is put after --watch, and -5 is an unknown option.
        unknownOption == watch.form = "next" /\ watch.text[1] = "-"
        value == IF watch.form = "alone" THEN DefaultInterval ELSE watch.text
        watchInterval == IF value = <<>> THEN <<60>> ELSE parseInt(value)
    IN  IF unknownOption THEN [call |-> "fatal", interval |-> 0]
        ELSE IF command = "rolling" /\ watch.form # "absent"
        THEN IF IntervalRejected(watchInterval)
             THEN [call |-> "rejected", interval |-> 0]
             ELSE [call |-> "watchMode", interval |-> watchInterval[1]]
        ELSE [call |-> "report", interval |-> 0]

\* main for a command line.
Main(command, watch) ==
    /\ calc = NotCalled
    /\ calc' = [fn |-> "main", command |-> command, watch |-> watch,
                outcome |-> MainOutcome(command, watch)]
    /\ UNCHANGED <<ingestVars, roll>>

NextCalc ==
    \/ \E command \in Commands, watch \in WatchArgs : Main(command, watch)
    \/ \E a \in HourKeyTimes, b \in HourKeyTimes, offset \in TimezoneOffsets :
           GetHourKey(a, b, offset)
    \/ \E usage \in [input_tokens : {0, 1000}, output_tokens : {0, 500},
                      cache_creation_input_tokens : {0, 200, 1000},
                      cache_read_input_tokens : {0, 500},
                      model : ModelNames] :
           CalculateCost(usage)

CalcSpec == Init /\ [][NextCalc]_vars

(***************************************************************************)
(* Aggregation on its own: one process, facts of several kinds, scans      *)
(* without time filter                                                     *)
(***************************************************************************)
AppendFact(line) == ExtAppend(Files[1], line)

NextFold ==
    \/ \E line \in FactLines : AppendFact(line)
    \/ StartWatch
    \/ \E writeOk \in BOOLEAN : CollectIncremental(NoFilter, writeOk)

FoldSpec == Init /\ [][NextFold]_vars

(***************************************************************************)
(* The two paths: the full scan of collect() and the incremental scans     *)
(***************************************************************************)
\* collect(): the statistics of a full scan are written to the store; the
\* cache of the object is not touched.
CollectFull(writeOk) ==
    /\ last' = [Step("full") EXCEPT !.entries = loadClaudeData(files),
                                    !.ret = Len(loadClaudeData(files)),
                                    !.wrote = writeOk]
    /\ IF writeOk
       THEN /\ store' = writeCachedStats(collect(files))
            /\ storeIds' = CountIds(NoIds, loadClaudeData(files), 1)
       ELSE UNCHANGED <<store, storeIds>>
    /\ UNCHANGED <<files, cache, seen, flm, phase, nwrites, foldCount, cacheIds,
                   roll, calc>>

NextPaths ==
    \/ \E line \in FactLines : AppendFact(line)
    \/ StartWatch
    \/ \E writeOk \in BOOLEAN : CollectIncremental(NoFilter, writeOk)
    \/ \E writeOk \in BOOLEAN : CollectFull(writeOk)

PathsSpec == Init /\ [][NextPaths]_vars

(***************************************************************************)
(* Logs with lines that are no usage records                               *)
(***************************************************************************)
\* The facts of these runs: of either ID, at 07:30, on Opus.
LogFacts ==
    {line \in FactLines : line.timestamp = 450 /\ line.usage = OpusUsage}

\* Lines that parse and lack something: the timestamp, the type assistant,
\* the usage, the message ID.
LackingLines ==
    { [type |-> "assistant", id |-> "m1", timestamp |-> 0, hasUsage |-> TRUE,
       usage |-> OpusUsage],
      [type |-> "user", id |-> "m1", timestamp |-> 450, hasUsage |-> TRUE,
       usage |-> OpusUsage],
      [type |-> "assistant", id |-> "m1", timestamp |-> 450, hasUsage |-> FALSE,
       usage |-> ZeroUsage],
      [type |-> "assistant", id |-> "", timestamp |-> 450, hasUsage |-> TRUE,
       usage |-> OpusUsage] }

\* Lines that do not parse: facts cut short.
CutLines == {Truncated(line) : line \in LogFacts}

\* The writer ends the line it had begun: the last line of the file, which
\* was cut short, is whole.
ExtComplete(f) ==
    /\ files[f].lines # <<>>
    /\ ~ParsesAsJson(files[f].lines[Len(files[f].lines)])
    /\ External(f, [files[f].lines EXCEPT
                       ![Len(files[f].lines)] = @.unparsable])

NextLog ==
    \/ \E line \in LogFacts \cup LackingLines \cup CutLines :
           ExtAppend(Files[1], line)
    \/ ExtComplete(Files[1])
    \/ StartWatch
    \/ \E writeOk \in BOOLEAN : CollectIncremental(NoFilter, writeOk)

LogSpec == Init /\ [][NextLog]_vars

(***************************************************************************)
(* The scan of one file with its awaits: the writer appends while the scan *)
(* waits for readFile                                                      *)
(***************************************************************************)
\* The scan up to the await of readFile: stat of the file, the comparison
\* with the recorded modification time, and the recording of the new one. A
\* file that has not changed ends the scan, which returns 0.
ScanStat ==
    /\ phase = "ready"
    /\ files[Files[1]].mtime # 0
    /\ LET filePath == Files[1]
           lastModified == files[filePath].mtime
           previousModified == flm[filePath]
       IN  IF FileChanged(lastModified, previousModified)
           THEN /\ flm' = [flm EXCEPT ![filePath] = lastModified]
                /\ phase' = "reading"
                /\ last' = [Step("stat") EXCEPT !.ret = lastModified]
           ELSE /\ last' = Step("collect")
                /\ UNCHANGED <<flm, phase>>
    /\ UNCHANGED <<files, store, cache, seen, nwrites, foldCount, cacheIds,
                   storeIds, roll, calc>>

\* readFile returns the content the file has by now; its lines are scanned,
\* and collectIncremental folds the new entries and writes the store.
ScanRead(writeOk) ==
    /\ phase = "reading"
    /\ \E scan \in {ScanLines(files[Files[1]].lines, 1,
                               [seen |-> seen, entries |-> <<>>], NoFilter)} :
        /\ seen' = scan.seen
        /\ foldCount' = CountIds(foldCount, scan.entries, 1)
        /\ last' = [Step("collect") EXCEPT
                        !.ret = Len(scan.entries),
                        !.read = {Files[1]},
                        !.entries = scan.entries,
                        !.unfiltered = TRUE,
                        !.wrote = (Len(scan.entries) > 0 /\ writeOk)]
        /\ IF Len(scan.entries) = 0
           THEN UNCHANGED <<cache, store, cacheIds, storeIds>>
           ELSE /\ cache' = FoldEntries(cache, scan.entries, 1)
                /\ cacheIds' = CountIds(cacheIds, scan.entries, 1)
                /\ IF writeOk
                   THEN /\ store' = writeCachedStats(cache')
                        /\ storeIds' = cacheIds'
                   ELSE UNCHANGED <<store, storeIds>>
    /\ phase' = "ready"
    /\ UNCHANGED <<files, flm, nwrites, roll, calc>>

NextRace ==
    \/ \E line \in LogFacts : AppendFact(line)
    \/ StartWatch
    \/ ScanStat
    \/ \E writeOk \in BOOLEAN : ScanRead(writeOk)

RaceSpec == Init /\ [][NextRace]_vars

(***************************************************************************)
(* A source tree with parts that cannot be read                            *)
(***************************************************************************)
\* What fails for a file: nothing; readdir of its project directory or stat
\* of the file; readFile of the file.
Faults == {"none", "stat", "read"}

\* A part of the tree becomes unreadable (permissions, an entry of projects/
\* that is no directory, a file removed after it was listed), or readable
\* again.
SetFault(f, fault) ==
    /\ files[f].fault # fault
    /\ (fault # "none" => \A g \in FileSet : files[g].fault = "none")
    /\ files' = [files EXCEPT ![f].fault = fault]
    /\ last' = Step("ext")
    /\ UNCHANGED <<store, cache, seen, flm, phase, nwrites, foldCount, cacheIds,
                   storeIds, roll, calc>>

NextTree ==
    \/ \E f \in FileSet, line \in LogFacts : ExtAppend(f, line)
    \/ \E f \in FileSet, fault \in Faults : SetFault(f, fault)
    \/ StartWatch
    \/ \E writeOk \in BOOLEAN : CollectIncremental(NoFilter, writeOk)

TreeSpec == Init /\ [][NextTree]_vars

(***************************************************************************)
(* The series of the table on its own: any buckets, any clock              *)
(***************************************************************************)
\* displayTable(records, full, ...) in a zone whose clock is set by shift
\* hours at ChangeAt: the rows it prints.
DisplayTable(records, full, shift) ==
    /\ calc = NotCalled
    /\ calc' = [fn |-> "displayTable", records |-> records, full |-> full,
                shift |-> shift,
                displayRecords |->
                    DisplayRecordsIn(SortedRecords(records), full, shift)]
    /\ UNCHANGED <<ingestVars, roll>>

NextSeries ==
    \E hours \in SUBSET RecordHours :
        /\ Cardinality(hours) <= MaxRecords
        /\ \E level \in [hours -> RecordLevels], full \in BOOLEAN,
              shift \in ClockChanges :
               DisplayTable(RecordsAt(hours, level), full, shift)

SeriesSpec == Init /\ [][NextSeries]_vars

(***************************************************************************)
(* The query half of report and of a tick: the buckets between the bounds  *)
(***************************************************************************)
\* A text of --since or --until, as the sequence of its parts: the date, the
\* code unit that follows it (32 for " ", 84 for "T"), the hour, the minute.
\* <<>> is the option not given; <<2>> is the date alone; "day-1 22:00",
\* "day-2 01:30", "day-2", "day-2T01:00".
BoundTexts == {<<>>, <<1, 32, 22, 0>>, <<2, 32, 1, 30>>, <<2>>, <<2, 84, 1, 0>>}

\* The text of an hour key, "YYYY-MM-DD HH:00", in the same parts.
HourKeyText(hourKey) == <<hourKey[1], 32, hourKey[2], 0>>

\* a < b on two strings: by the first code unit in which they differ, a
\* proper prefix being less.
TextBefore(a, b) ==
    LET differ == {i \in 1..Min(Len(a), Len(b)) : a[i] # b[i]}
    IN  IF differ = {} THEN Len(a) < Len(b)
        ELSE LET i == CHOOSE i \in differ : \A j \in differ : i <= j
             IN  a[i] < b[i]

\* The records report() and watchMode() hand to the view: those of the cache
\* that have an hour, r.hour >= options.since, r.hour <= options.until.
BoundedRecords(records, since, until) ==
    {r \in records :
        /\ r.hour # UndefinedKey
        /\ since # <<>> => ~TextBefore(HourKeyText(r.hour), since)
        /\ until # <<>> => ~TextBefore(until, HourKeyText(r.hour))}

\* report({rolling: true, since, until, full}) from the filter of the records
\* on: the rolling view of the records between the bounds.
Report(records, since, until, full) ==
    /\ roll.pc = "idle"
    /\ roll' = Rendered("report", NoWatchOptions,
                        BoundedRecords(records, since, until), full, 0, 0)
                    @@ [cached |-> records, since |-> since, until |-> until]
    /\ UNCHANGED <<ingestVars, calc>>

NextReport ==
    \E hours \in SUBSET RecordHours :
        /\ Cardinality(hours) <= MaxRecords
        /\ \E since \in BoundTexts, until \in BoundTexts, full \in BOOLEAN :
               Report(RecordsAt(hours, [h \in hours |-> WatchLevel]),
                      since, until, full)

ReportSpec == Init /\ [][NextReport]_vars

(***************************************************************************)
(* Scans with a time bound, valid or not                                   *)
(***************************************************************************)
\* --since with a text that is no date-time, as report() hands it to the scan.
InvalidFilter == [since |-> InvalidDate, tail |-> 0]

SinceFilters == {NoFilter, [since |-> 7 * 60, tail |-> 0], InvalidFilter}

NextBound ==
    \/ \E line \in FactLines : AppendFact(line)
    \/ StartWatch
    \/ \E timeFilter \in SinceFilters, writeOk \in BOOLEAN :
           CollectIncremental(timeFilter, writeOk)

BoundSpec == Init /\ [][NextBound]_vars

(***************************************************************************)
(* The store damaged between runs                                          *)
(***************************************************************************)
\* At most this many lines of the store are damaged at a time.
MaxDamage == 1

\* The lines of the store that are no HourlyStats records.
DamagedLines(st) ==
    {i \in 1..Len(st.lines) : "hour" \notin DOMAIN st.lines[i]}

Damage(lines) ==
    /\ store.exists
    /\ Cardinality(DamagedLines(store)) < MaxDamage
    /\ store' = [exists |-> TRUE, lines |-> lines]
    /\ last' = Step("damage")
    /\ UNCHANGED <<files, cache, seen, flm, phase, nwrites, foldCount, cacheIds,
                   storeIds, roll, calc>>

\* A write of the store was interrupted: the first n - 1 lines are whole, and
\* line n is cut short.
InterruptedWrite(n) ==
    /\ n \in 1..Len(store.lines)
    /\ ParsesAsJson(store.lines[n])
    /\ Damage(SubSeq(store.lines, 1, n - 1) \o <<Truncated(store.lines[n])>>)

\* A JSON line of another format gets into the store, as its line i.
ForeignLine(i) ==
    /\ i \in 1..(Len(store.lines) + 1)
    /\ Damage(SubSeq(store.lines, 1, i - 1) \o <<NoHourLine>>
                  \o SubSeq(store.lines, i, Len(store.lines)))

\* The store is removed, or made unreadable.
RemoveStore ==
    /\ store.exists
    /\ store' = [exists |-> FALSE, lines |-> <<>>]
    /\ storeIds' = NoIds
    /\ last' = Step("damage")
    /\ UNCHANGED <<files, cache, seen, flm, phase, nwrites, foldCount, cacheIds,
                   roll, calc>>

\* Processes come and go (each starts with initializeCache), facts are
\* appended, and the store is damaged in between.
\* The facts of these runs: of either ID, at 00:30 or 07:30, on Opus.
StoreFacts ==
    {line \in FactLines : line.timestamp \in Timestamps /\ line.usage = OpusUsage}

NextStore ==
    \/ \E line \in StoreFacts : AppendFact(line)
    \/ Start
    \/ \E writeOk \in BOOLEAN : CollectIncremental(NoFilter, writeOk)
    \/ \E n \in 1..MaxWrites : InterruptedWrite(n)
    \/ \E i \in 1..(MaxWrites + 1) : ForeignLine(i)
    \/ RemoveStore

StoreSpec == Init /\ [][NextStore]_vars

\* Watch mode over a store that is damaged between processes: each process
\* starts with initializeCache and then runs ticks whose writeFile succeeds.
NextRecover ==
    \/ \E line \in StoreFacts : AppendFact(line)
    \/ (phase = "down" \/ last.op = "damage") /\ Start
    \/ Tick
    \/ \E n \in 1..MaxWrites : InterruptedWrite(n)
    \/ \E i \in 1..(MaxWrites + 1) : ForeignLine(i)

RecoverSpec == Init /\ [][NextRecover]_vars /\ WF_vars(TickWith(TRUE))

(***************************************************************************)
(* Notions the properties are stated with                                  *)
(***************************************************************************)
\* The usage records of file f that carry the ID id.
RecordsOf(fs, f, id) ==
    {i \in 1..Len(fs[f].lines) :
        IsUsageEntry(fs[f].lines[i]) /\ fs[f].lines[i].id = id}

\* The IDs of the usage records of the files in fileSet.
LogIds(fs, fileSet) == {id \in Ids : \E f \in fileSet : RecordsOf(fs, f, id) # {}}

\* id has a record with a non-zero token count in a file of fileSet.
HasNonZero(fs, fileSet, id) ==
    \E f \in fileSet : \E i \in RecordsOf(fs, f, id) : HasTokens(fs[f].lines[i].usage)

\* id occurs in the logs, every record of it has a non-zero token count and a
\* timestamp that every time filter admits.
IsPlainFact(fs, id) ==
    /\ id \in LogIds(fs, FileSet)
    /\ \A f \in FileSet : \A i \in RecordsOf(fs, f, id) :
           /\ HasTokens(fs[f].lines[i].usage)
           /\ \A tf \in TimeFilters \cup {WatchFilter} :
                  ~FilteredOut(fs[f].lines[i].timestamp, tf)

\* All lines of the logs, in scan order.
RECURSIVE AllLines(_, _)
AllLines(fs, k) ==
    IF k > Len(Files) THEN <<>> ELSE fs[Files[k]].lines \o AllLines(fs, k + 1)

\* The first non-zero-token usage record of every ID, in scan order.
RECURSIVE DistinctFacts(_, _, _)
DistinctFacts(lines, i, ids) ==
    IF i > Len(lines) THEN <<>>
    ELSE IF /\ IsUsageEntry(lines[i])
            /\ HasTokens(lines[i].usage)
            /\ lines[i].id \notin ids
         THEN <<EntryOf(lines[i])>>
                  \o DistinctFacts(lines, i + 1, ids \cup {lines[i].id})
         ELSE DistinctFacts(lines, i + 1, ids)

\* The hourly statistics of the source logs aggregated in full.
FullAggregate(fs) ==
    FoldEntries(EmptyCache, DistinctFacts(AllLines(fs, 1), 1, {}), 1)

StoreUsable == store.exists /\ store.lines # <<>>

NoFileTimes == \A f \in FileSet : flm[f] = 0

(***************************************************************************)
(* Properties                                                              *)
(***************************************************************************)

\* C1: between two initializeCache calls every message ID is folded into the
\* hourly buckets at most once, whatever scans and external writes interleave.
C1_FoldedAtMostOnce == \A id \in Ids : foldCount[id] <= 1

\* An ID was folded by an earlier scan, and the last scan read in full a file
\* that holds it, without folding anything.
C1_Witness ==
    /\ last.op = "collect"
    /\ last.ret = 0
    /\ \E id \in Ids :
           /\ foldCount[id] = 1
           /\ HasNonZero(files, last.read, id)

\* C2: a scan without time filter that starts from an empty seen-ID set folds
\* as many facts as there are distinct message IDs with at least one
\* non-zero-token record among the records presented to it.
C2_FoldedEqualsDistinctIds ==
    [][ (last'.op = "collect" /\ last'.unfiltered /\ seen = {})
            => last'.ret =
                   Cardinality({id \in Ids : HasNonZero(files, last'.read, id)})
      ]_vars

\* C3: on a cold start (no usable store, empty file-mtime map) initializeCache
\* followed by one collectIncremental without filter leaves the cache equal to
\* the aggregate of every distinct-ID non-zero-token record of the logs.
C3_ColdStartReaggregates ==
    [][ (/\ last.op = "init" /\ ~StoreUsable /\ NoFileTimes
         /\ last'.op = "collect" /\ last'.unfiltered)
            => cache' = FullAggregate(files)
      ]_vars

\* C4: after a restart with a store present, the first run (initializeCache
\* then collectIncremental) folds every fact that is in the logs and not in
\* the persisted sums.
C4_RestartFoldsNewFacts ==
    [][ (/\ last.op = "init" /\ StoreUsable /\ NoFileTimes
         /\ last'.op = "collect" /\ last'.unfiltered)
            => \A id \in Ids :
                   (IsPlainFact(files, id) /\ storeIds[id] = 0) => cacheIds'[id] >= 1
      ]_vars

\* C5: a re-initialization with store and logs unchanged keeps the buckets,
\* puts every message ID of the logs in the seen-ID set, and the scan that
\* follows folds nothing.
C5_ReinitCountsNothingTwice ==
    [][ /\ (InSync /\ last'.op = "init")
            => (cache' = cache /\ LogIds(files, FileSet) \subseteq seen')
        /\ (last.op = "init" /\ last.insync /\ last'.op = "collect")
            => last'.ret = 0
      ]_vars

\* The last part of C5 alone: the scan that follows such a re-initialization
\* counts no fact again that is in the persisted sums.
C5_NothingCountedTwice ==
    [][ (last.op = "init" /\ last.insync /\ last'.op = "collect")
            => \A id \in Ids : storeIds[id] >= 1 => cacheIds'[id] = cacheIds[id]
      ]_vars

\* A fact of the logs that no scan has met yet, while the watch loop runs.
NewFact(id) ==
    /\ phase = "ready"
    /\ id \notin seen
    /\ cacheIds[id] = 0
    /\ IsPlainFact(files, id)

\* C6: in watch mode every valid new-ID fact appended to a log is eventually
\* in the cache and in the persisted store.
C6_AppendedFactEventuallyPersisted ==
    \A id \in Ids : NewFact(id) ~> (cacheIds[id] >= 1 /\ storeIds[id] >= 1)

\* C7: a collectIncremental in which no file's modification time is greater
\* than its recorded value reads nothing, returns 0 and leaves the cache, the
\* seen-ID set and the store as they were.
C7_UnchangedFilesAreSkipped ==
    [][ (last'.op = "collect" /\ \A f \in FileSet : files[f].mtime <= flm[f])
            => /\ last'.ret = 0
               /\ last'.read = {}
               /\ cache' = cache
               /\ seen' = seen
               /\ store' = store
      ]_vars

\* A file with content was scanned before, and the last scan skipped every file.
C7_Witness ==
    /\ last.op = "collect"
    /\ last.read = {}
    /\ \E f \in FileSet :
           files[f].lines # <<>> /\ flm[f] = files[f].mtime /\ cacheIds # NoIds

\* C8: scanning files whose modification time increased but whose records all
\* carry already-seen message IDs leaves every bucket as it was.
C8_ReingestionIsIdempotent ==
    [][ (/\ last'.op = "collect"
         /\ last'.read # {}
         /\ LogIds(files, last'.read) \subseteq seen)
            => cache' = cache
      ]_vars

\* The last scan read again a file all of whose records were folded before.
C8_Witness ==
    /\ last.op = "collect"
    /\ last.unfiltered
    /\ last.read # {}
    /\ LogIds(files, last.read) # {}
    /\ \A id \in LogIds(files, last.read) : IsPlainFact(files, id) /\ cacheIds[id] = 1
    /\ \A id \in Ids : foldCount[id] = cacheIds[id]
    /\ last.ret = 0

RECURSIVE SumOf(_, _)
SumOf(records, field) ==
    IF records = {} THEN 0
    ELSE LET r == CHOOSE r \in records : TRUE
         IN  r[field] + SumOf(records \ {r}, field)

\* The buckets whose hour is 0, 1, 2, 3 or 4 hours before the hour of row.
WindowOf(row) ==
    {r \in roll.records : HourTime(row.hour) - HourTime(r.hour) \in 0..4}

BandOf(rollingCost, limit) ==
    IF rollingCost * 100 < 60 * limit THEN <<"green", "">>
    ELSE IF rollingCost * 100 < 80 * limit THEN <<"yellow", "">>
    ELSE IF rollingCost * 100 < 90 * limit THEN <<"red", "HIGH USAGE">>
    ELSE <<"red", "OVER LIMIT">>

\* C10: the utilization of every row falls into one of four bands: below 60
\* green, 60 to below 80 yellow, 80 to below 90 red with HIGH USAGE, 90 and
\* above red with OVER LIMIT.
C10_UtilizationBands ==
    roll.pc = "done" =>
        \A n \in 1..Len(roll.rows) :
            <<roll.rows[n].color, roll.rows[n].alert>>
                = BandOf(roll.rows[n].rollingCost, roll.limit)

\* The bands of C10 for the rows of a table without row limit.
C10_BandsWithoutRowLimit ==
    (roll.pc = "done" /\ roll.maxOutputLines = 0) =>
        \A n \in 1..Len(roll.rows) :
            <<roll.rows[n].color, roll.rows[n].alert>>
                = BandOf(roll.rows[n].rollingCost, roll.limit)

\* The colour of every row is the colour of its band, and an alert that is
\* displayed is the alert of its band.
C10_ColourAndDisplayedAlert ==
    roll.pc = "done" =>
        \A n \in 1..Len(roll.rows) :
            LET band == BandOf(roll.rows[n].rollingCost, roll.limit)
            IN  /\ roll.rows[n].color = band[1]
                /\ roll.rows[n].alert \in {band[2], ""}

\* A table without row limit that shows a row at exactly 80 and a row at
\* exactly 90 percent.
C10_ExactBoundsReached ==
    /\ roll.pc = "done"
    /\ roll.maxOutputLines = 0
    /\ \A percent \in {80, 90} :
           \E n \in 1..Len(roll.rows) :
               roll.rows[n].rollingCost * 100 = percent * roll.limit

\* C11: every displayed row whose utilization is at least 80 percent has its
\* alert, HIGH USAGE from 80 to below 90 and OVER LIMIT from 90 on, the last
\* row admitted by the row limit included.
C11_AlertAccompaniesRow ==
    roll.pc = "done" =>
        \A n \in 1..Len(roll.rows) :
            LET row == roll.rows[n]
            IN  /\ (row.rollingCost * 100 >= 90 * roll.limit)
                       => row.alert = "OVER LIMIT"
                /\ (/\ row.rollingCost * 100 >= 80 * roll.limit
                    /\ row.rollingCost * 100 < 90 * roll.limit)
                       => row.alert = "HIGH USAGE"

\* The body lines of the table: the data rows and the alert rows.
BodyLines(rows) ==
    Len(rows) + Cardinality({n \in 1..Len(rows) : rows[n].alert # ""})

\* C12: with a positive row limit the table has at most that many body lines
\* (data rows plus alert rows); in watch mode the limit is
\* min(tail, availableDataRows) when a tail is given and availableDataRows
\* otherwise, and availableDataRows = max(1, terminalRows - reservedRows) is
\* at least 1.
C12_BodyLinesWithinLimit ==
    roll.pc = "done" =>
        /\ roll.maxOutputLines > 0 => BodyLines(roll.rows) <= roll.maxOutputLines
        /\ roll.mode = "watch" =>
               LET rows == IF roll.options.stdoutRows = 0 THEN 24
                           ELSE roll.options.stdoutRows
                   reserved == IF roll.options.noHeader THEN 7 ELSE 17
                   available == IF rows - reserved > 1 THEN rows - reserved ELSE 1
               IN  /\ available >= 1
                   /\ roll.options.tail = 0 => roll.maxOutputLines = available
                   /\ (roll.options.tail # 0 /\ roll.options.tail <= available)
                          => roll.maxOutputLines = roll.options.tail
                   /\ (roll.options.tail # 0 /\ roll.options.tail > available)
                          => roll.maxOutputLines = available
                   /\ roll.options.tail >= 0 => roll.maxOutputLines >= 1

\* A table of watch mode in full view, cut by the terminal height: more hours
\* to show than the limit admits, the limit reached exactly, alert rows among
\* the lines.
C12_Witness ==
    /\ roll.pc = "done"
    /\ roll.mode = "watch"
    /\ roll.full
    /\ roll.options.tail = 0
    /\ roll.options.stdoutRows = 20
    /\ ~roll.options.noHeader
    /\ roll.maxOutputLines = 3
    /\ BodyLines(roll.rows) = 3
    /\ \E n \in 1..Len(roll.rows) : roll.rows[n].alert # ""

\* The entries of a step that fall into the hour hourKey.
EntriesAt(entries, hourKey) ==
    {i \in 1..Len(entries) : getHourKey(entries[i].timestamp) = hourKey}

RECURSIVE SumAt(_, _, _)
SumAt(entries, indices, field) ==
    IF indices = {} THEN 0
    ELSE LET i == CHOOSE i \in indices : TRUE
         IN  entries[i].usage[field] + SumAt(entries, indices \ {i}, field)

RECURSIVE PricedAt(_, _)
PricedAt(entries, indices) ==
    IF indices = {} THEN 0
    ELSE LET i == CHOOSE i \in indices : TRUE
             usage == entries[i].usage
         IN  calculateCost(usage.input_tokens, usage.output_tokens,
                           usage.cache_creation_input_tokens,
                           usage.cache_read_input_tokens, ModelOf(usage))
                 + PricedAt(entries, indices \ {i})

\* C13: a scan adds to the bucket of each folded fact's hour (a zero bucket if
\* absent) the fact's input tokens, output tokens and individually priced
\* cost, adds one to sessionCount per fact, and sets both averages to the
\* bucket's tokens divided by its sessionCount; other buckets stay as they are.
C13_FoldAddsToHourBucket ==
    [][ last'.op = "collect" =>
          /\ DOMAIN cache' =
                 DOMAIN cache \cup {getHourKey(last'.entries[i].timestamp) :
                                       i \in 1..Len(last'.entries)}
          /\ \A k \in DOMAIN cache' :
                 LET at == EntriesAt(last'.entries, k)
                     old == IF k \in DOMAIN cache THEN cache[k]
                            ELSE [inputTokens |-> 0, outputTokens |-> 0,
                                  cost |-> 0, sessionCount |-> 0]
                     new == cache'[k]
                 IN  IF at = {} THEN new = cache[k]
                     ELSE /\ new.hour = k
                          /\ new.inputTokens = old.inputTokens
                                 + SumAt(last'.entries, at, "input_tokens")
                          /\ new.outputTokens = old.outputTokens
                                 + SumAt(last'.entries, at, "output_tokens")
                          /\ new.cost = old.cost + PricedAt(last'.entries, at)
                          /\ new.sessionCount = old.sessionCount + Cardinality(at)
                          /\ new.avgInputPerSession[1] * new.sessionCount
                                 = new.inputTokens * new.avgInputPerSession[2]
                          /\ new.avgOutputPerSession[1] * new.sessionCount
                                 = new.outputTokens * new.avgOutputPerSession[2]
      ]_vars

\* Two facts of one hour, 1000/500 and 800/600 tokens, were folded: the
\* bucket holds 1800 input and 1100 output tokens, sessionCount 2 and the two
\* costs (0.0142 USD on Sonnet, 0.05775 USD on Opus).
C13_Witness ==
    /\ last.op = "collect"
    /\ <<0, 7>> \in DOMAIN cache
    /\ cache[<<0, 7>>].inputTokens = 1800
    /\ cache[<<0, 7>>].outputTokens = 1100
    /\ cache[<<0, 7>>].sessionCount = 2
    /\ cache[<<0, 7>>].avgInputPerSession = <<900, 1>>
    /\ cache[<<0, 7>>].avgOutputPerSession = <<550, 1>>
    /\ cache[<<0, 7>>].cost = 1420 + 5775

\* C14: two timestamps of the same UTC hour get the same key, timestamps of
\* adjacent hours get different keys, and the key is the top of the
\* timestamp's UTC hour.
C14_HourKeyIsUtcHour ==
    calc.fn = "getHourKey" =>
        /\ (calc.a \div 60 = calc.b \div 60) => calc.keyA = calc.keyB
        /\ (calc.a \div 60 = calc.b \div 60 + 1) => calc.keyA # calc.keyB
        /\ calc.keyA = <<(calc.a \div 60) \div 24, (calc.a \div 60) % 24>>

\* The first part of C14 alone: one key per UTC hour.
C14_SameUtcHourSameKey ==
    calc.fn = "getHourKey" =>
        ((calc.a \div 60 = calc.b \div 60) => calc.keyA = calc.keyB)

\* C14 in a process whose time zone is UTC.
C14_HourKeyInUtcZone ==
    (calc.fn = "getHourKey" /\ calc.offset = 0) =>
        /\ (calc.a \div 60 = calc.b \div 60) => calc.keyA = calc.keyB
        /\ (calc.a \div 60 = calc.b \div 60 + 1) => calc.keyA # calc.keyB
        /\ calc.keyA = <<(calc.a \div 60) \div 24, (calc.a \div 60) % 24>>

\* The sum over the four token kinds of tokens/1000 times the rates registered
\* for a model.
RateSum(usage, model) ==
    (usage.input_tokens * pricingTable[model].input) \div 1000
    + (usage.output_tokens * pricingTable[model].output) \div 1000
    + (usage.cache_creation_input_tokens * pricingTable[model].cacheCreation) \div 1000
    + (usage.cache_read_input_tokens * pricingTable[model].cacheRead) \div 1000

\* C15: calculateCost is the sum over the four token kinds of tokens/1000
\* times the rate registered for the model, with the rates of Sonnet 4 for a
\* model name that is not registered and for no model name.
C15_CostIsRateSumOfModel ==
    calc.fn = "calculateCost" =>
        calc.cost = RateSum(calc.usage,
                            IF calc.usage.model \in {Sonnet, Opus, Haiku}
                            THEN calc.usage.model ELSE Sonnet)

\* C15 for the model names that are not names of inherited properties.
C15_CostForOrdinaryNames ==
    (calc.fn = "calculateCost" /\ calc.usage.model \notin InheritedNames) =>
        calc.cost = RateSum(calc.usage,
                            IF calc.usage.model \in {Sonnet, Opus, Haiku}
                            THEN calc.usage.model ELSE Sonnet)

\* C16: 1000 input, 500 output and 200 cache-creation tokens on Sonnet 4 cost
\* 0.003 + 0.0075 + 0.00075 = 0.01125, i.e. 1125 units of 0.00001.
C16_SonnetCacheCreationCost ==
    (/\ calc.fn = "calculateCost"
     /\ calc.usage = [input_tokens |-> 1000, output_tokens |-> 500,
                      cache_creation_input_tokens |-> 200,
                      cache_read_input_tokens |-> 0, model |-> Sonnet])
        => calc.cost = 1125

\* The lines of a store that are HourlyStats records.
RecordLines(st) == {i \in 1..Len(st.lines) : "hour" \in DOMAIN st.lines[i]}

\* C17: after every successful writeCachedStats the store holds exactly one
\* line per bucket of the cache and nothing else, in ascending order of hour
\* key.
C17_StoreIsTheCacheInOrder ==
    [][(last'.op = "collect" /\ last'.wrote) =>
          /\ store'.exists
          /\ Len(store'.lines) = Cardinality(DOMAIN cache')
          /\ \A k \in DOMAIN cache' :
                 \E i \in 1..Len(store'.lines) : store'.lines[i] = StoreLine(cache'[k])
          /\ \A i \in 1..Len(store'.lines) :
                 \E k \in DOMAIN cache' : store'.lines[i] = StoreLine(cache'[k])
          /\ \A i \in RecordLines(store'), j \in RecordLines(store') :
                 i < j => KeyBefore(store'.lines[i].hour, store'.lines[j].hour)
      ]_vars

\* A scan of one new fact has written a store of two lines, for the two
\* buckets of the cache.
C17_Witness ==
    /\ last.op = "collect" /\ last.wrote /\ last.ret = 1
    /\ Cardinality(DOMAIN cache) = 2
    /\ UndefinedKey \notin DOMAIN cache
    /\ Len(store.lines) = 2

\* C18: initializeCache of a new process on the store that writeCachedStats
\* wrote for a cache gives that cache again: the same hour keys, and for each
\* the same tokens, cost, session count and averages.
C18_PersistThenHydrate ==
    [][(last'.op = "init" /\ store = writeCachedStats(cache)) => cache' = cache]_vars

\* A new process has hydrated a bucket of two facts from the store written
\* for it.
C18_Witness ==
    /\ last.op = "init"
    /\ store = writeCachedStats(cache)
    /\ \E k \in DOMAIN cache : cache[k].sessionCount = 2
    /\ \A k \in DOMAIN cache : cache[k].inputTokens # cache[k].outputTokens

\* C19: initializeCache loads every stored line that is a record, whatever
\* the other lines are; a line that does not parse gives no bucket; without
\* a readable store the cache is empty.
C19_EachLineOnItsOwn ==
    [][last'.op = "init" =>
          /\ \A i \in RecordLines(store) :
                 /\ store.lines[i].hour \in DOMAIN cache'
                 /\ cache'[store.lines[i].hour] = HydrateLine(store.lines[i])
          /\ \A k \in DOMAIN cache' :
                 \E i \in 1..Len(store.lines) :
                    ParsesAsJson(store.lines[i]) /\ HourOf(store.lines[i]) = k
          /\ (~store.exists => cache' = EmptyCache)
      ]_vars

\* A process has started from a store of one whole line and one cut line.
C19_Witness ==
    /\ last.op = "init"
    /\ Len(store.lines) = 2
    /\ ~ParsesAsJson(store.lines[2])
    /\ Cardinality(DOMAIN cache) = 1
    /\ cache[store.lines[1].hour].sessionCount = 1

\* A process has started without a store.
C19_WitnessNoStore ==
    last.op = "init" /\ ~store.exists /\ cache = EmptyCache /\ nwrites = MaxWrites

C20_UnparsableLinesNeverFatal ==
    (last.op = "collect" /\ UndefinedKey \notin DOMAIN cache) => ~last.threw

\* A fact of the logs that a tick of watch mode would fold if it had not been
\* seen: a usage record with tokens, inside the window of the tick's filter.
FactInReach ==
    \E f \in FileSet : \E i \in 1..Len(files[f].lines) :
        /\ IsUsageEntry(files[f].lines[i])
        /\ HasTokens(files[f].lines[i].usage)
        /\ ~FilteredOut(files[f].lines[i].timestamp, WatchFilter)

\* The store has well-formed lines only, one of them for the hour of a fact
\* of the logs.
StoreReflectsLogs ==
    /\ store.exists
    /\ DamagedLines(store) = {}
    /\ \E f \in FileSet : \E i \in 1..Len(files[f].lines) :
           /\ IsUsageEntry(files[f].lines[i])
           /\ HasTokens(files[f].lines[i].usage)
           /\ \E n \in 1..Len(store.lines) :
                  store.lines[n].hour = getHourKey(files[f].lines[i].timestamp)

\* C21: a process that starts on a damaged store while the logs hold a valid
\* fact eventually rewrites the store with well-formed lines for the usage of
\* the logs.
C21_DamagedStoreEventuallyRewritten ==
    (last.op = "init" /\ store.exists /\ DamagedLines(store) # {} /\ FactInReach)
        ~> StoreReflectsLogs

\* C22: after a tick whose write of the store failed, the facts it folded are
\* in the cache, and a later tick writes a store that holds them.
C22_FailedWriteIsRetried ==
    (last.op = "collect" /\ last.ret > 0 /\ ~last.wrote)
        ~> (store = writeCachedStats(cache))

\* The first half of C22: the facts of a tick whose write failed are in the
\* cache when the tick ends.
C22_FoldedFactsStayInCache ==
    [][(last'.op = "collect" /\ last'.ret > 0 /\ ~last'.wrote)
          => cache' = FoldEntries(cache, last'.entries, 1)]_vars

\* C23: a tick of watch mode that ends with an error leaves the loop running:
\* the next tick can start.
C23_TickErrorIsContained ==
    /\ [][(phase = "writing" /\ last'.op = "collect" /\ ~last'.wrote)
             => phase' = "ready"]_vars
    /\ [](phase = "ready" => ENABLED TickScan)

\* A tick that folded a fact and could not write the store has ended, and the
\* loop is where a tick can start.
C23_Witness ==
    /\ phase = "ready"
    /\ last.op = "collect" /\ last.ret > 0 /\ ~last.wrote
    /\ cacheIds # storeIds

\* C24: when the process has stopped on a signal, no tick is left between its
\* scan and the end of its persist.
C24_NoTickCutShort == phase = "stopped" => last.op # "scan"

\* The persist half of C24: the store of a stopped process is the one a
\* completed write left.
C24_StoreOfStoppedProcessIsWhole ==
    phase = "stopped" => DamagedLines(store) = {}

\* A text that is a decimal number: digits, with a sign before them and a
\* fraction after them at most.
RECURSIVE AllDigits(_, _)
AllDigits(text, i) ==
    i > Len(text) \/ (text[i] \in Digits /\ AllDigits(text, i + 1))

IsNumber(text) ==
    \E whole \in 1..Len(text) :
        LET first == IF text[1] \in {"-", "+"} THEN 2 ELSE 1
        IN  /\ first <= whole
            /\ AllDigits(SubSeq(text, first, whole), 1)
            /\ \/ whole = Len(text)
               \/ /\ whole + 1 < Len(text)
                  /\ text[whole + 1] = "."
                  /\ AllDigits(SubSeq(text, whole + 2, Len(text)), 1)

\* The interval that was asked for: a text after --watch.
IntervalGiven == calc.fn = "main" /\ calc.command = "rolling" /\ calc.watch.text # <<>>

IntervalOmitted ==
    /\ calc.fn = "main" /\ calc.command = "rolling"
    /\ calc.watch.form \in {"alone", "equals"} /\ calc.watch.text = <<>>

ValidLines(fs, f) ==
    {i \in 1..Len(fs[f].lines) :
        LET line == fs[f].lines[i]
        IN  /\ "unparsable" \notin DOMAIN line
            /\ line.timestamp # 0
            /\ line.type = "assistant"
            /\ line.hasUsage
            /\ line.id # ""
            /\ line.usage.input_tokens + line.usage.output_tokens
                 + line.usage.cache_creation_input_tokens
                 + line.usage.cache_read_input_tokens > 0}

\* C26: a scan returns, and it folds the new IDs of the valid lines of the
\* files it reads, whatever the other lines of these files are; the cache
\* holds sums of facts only (every fact here has 800 input and 600 output
\* tokens, at 07:30).
C26_BadLinesAreSkippedAlone ==
    [][last'.op = "collect" =>
          /\ {last'.entries[j].id : j \in 1..Len(last'.entries)}
               = UNION {{files[f].lines[i].id : i \in ValidLines(files, f)} :
                           f \in last'.read} \ seen
          /\ \A k \in DOMAIN cache' :
                 /\ k = <<0, 7>>
                 /\ cache'[k].sessionCount >= 1
                 /\ cache'[k].inputTokens = 800 * cache'[k].sessionCount
                 /\ cache'[k].outputTokens = 600 * cache'[k].sessionCount
          /\ \A f \in FileSet :
                 files[f].mtime > flm[f] => f \in last'.read
      ]_vars

\* A scan has read a file whose first line does not parse and whose second
\* line is a fact, and has folded the fact.
C26_Witness ==
    /\ last.op = "collect" /\ last.ret = 1
    /\ Files[1] \in last.read
    /\ Len(files[Files[1]].lines) = 2
    /\ ~ParsesAsJson(files[Files[1]].lines[1])
    /\ ValidLines(files, Files[1]) = {2}
    /\ cache[<<0, 7>>].sessionCount = 1

\* The files a scan has to read: they exist, can be listed and read, and
\* were modified after the scan that read them last.
DueFiles ==
    {f \in FileSet : /\ files[f].mtime > flm[f]
                     /\ files[f].fault = "none"}

\* C27: a scan returns whatever part of the tree cannot be read, and it
\* reads every file that is due and readable and folds its new facts.
C27_FaultsAreIsolated ==
    [][last'.op = "collect" =>
          /\ DueFiles \subseteq last'.read
          /\ UNION {{files[f].lines[i].id : i \in ValidLines(files, f)} :
                       f \in DueFiles} \ seen
                \subseteq {last'.entries[j].id : j \in 1..Len(last'.entries)}
      ]_vars

\* The last part of C27: when no file can be listed, the scan returns 0 and
\* leaves the cache as it was.
C27_NothingReadableIsNoData ==
    [][(last'.op = "collect" /\ \A f \in FileSet :
            files[f].mtime = 0 \/ files[f].fault = "stat")
          => (last'.ret = 0 /\ cache' = cache)]_vars

\* A file is recorded as read at its modification time although its content
\* was never read.
C27_RecordedOnlyWhenRead ==
    [][last'.op = "collect" =>
          \A f \in FileSet : flm'[f] # flm[f] => f \in last'.read]_vars

\* C28: a since that is no date-time is rejected: no scan runs with it, so no
\* step that was given one reads a file, folds a fact or moves the cache, the
\* seen identifiers, the recorded modification times or the store.
C28_InvalidBoundIsRejected ==
    [][(last'.op = "collect" /\ last'.invalid)
        => /\ last'.read = {}
           /\ last'.ret = 0
           /\ UNCHANGED <<cache, seen, flm, store>>]_vars

\* What the code does with it: the scan folds what the scan without bound folds.
C28_InvalidBoundIsNoBound ==
    [][(last'.op = "collect" /\ last'.invalid)
        => LET scan == loadClaudeDataIncremental(files, flm, seen, NoFilter)
           IN  /\ last'.entries = scan.entries
               /\ last'.read = scan.read
               /\ seen' = scan.seen]_vars

C28_WitnessBoundIgnored ==
    /\ last.op = "collect"
    /\ last.invalid
    /\ last.ret > 0
    /\ \E i \in 1..Len(last.entries) : last.entries[i].timestamp < 7 * 60

\* The counters of a bucket that only grow.
GrowingFields ==
    {"inputTokens", "outputTokens", "totalTokens", "cost", "sessionCount"}

\* C29: between two initializeCache, no step removes a bucket from the cache
\* and no step lowers inputTokens, outputTokens, totalTokens, cost or
\* sessionCount of a bucket.
C29_BucketsOnlyGrow ==
    [][last'.op # "init"
        => \A hourKey \in DOMAIN cache :
               /\ hourKey \in DOMAIN cache'
               /\ \A field \in GrowingFields :
                      cache'[hourKey][field] >= cache[hourKey][field]]_vars

\* A scan folded one fact into a bucket that held a fact already.
C29_Witness ==
    /\ last.op = "collect"
    /\ last.ret = 1
    /\ LET hourKey == getHourKey(last.entries[1].timestamp)
       IN  /\ cache[hourKey].sessionCount >= 2
           /\ cache[hourKey].inputTokens > last.entries[1].usage.input_tokens

\* The hour an hour key names, in hours since 00:00 of day 0.
KeyHour(hourKey) == hourKey[1] * 24 + hourKey[2]

\* The rows of a full table are hoursToShow hours, the latest record first,
\* each row one hour before the row above it; a row is the record of its hour
\* or a zero record, and no hour is there twice.
FullSeriesIsContiguous ==
    LET rows == calc.displayRecords
        latest == CHOOSE a \in calc.records :
                      \A b \in calc.records : KeyHour(b.hour) <= KeyHour(a.hour)
    IN  /\ Len(rows) = hoursToShow
        /\ rows[1] = latest
        /\ \A i \in 1..(hoursToShow - 1) :
               KeyHour(rows[i].hour) - KeyHour(rows[i + 1].hour) = 1
        /\ \A i, j \in 1..hoursToShow : i # j => rows[i].hour # rows[j].hour
        /\ \A i \in 1..hoursToShow :
               IF \E r \in calc.records : r.hour = rows[i].hour
               THEN rows[i] \in calc.records
               ELSE rows[i] = ZeroRecord(rows[i].hour)

\* C30: in full mode with at least one record, the rows are 24 consecutive
\* hours descending from the latest cached hour, one hour apart, each the
\* cached bucket of its hour or a zero bucket, no hour missing or twice.
C30_FullSeriesIsContiguous ==
    (calc.fn = "displayTable" /\ calc.full /\ calc.records # {})
        => FullSeriesIsContiguous

\* The same, for the zones that have no clock change in the span.
C30_ContiguousWithoutClockChange ==
    (calc.fn = "displayTable" /\ calc.full /\ calc.records # {}
     /\ calc.shift = 0)
        => FullSeriesIsContiguous

\* At the end of daylight saving time a full table shows an hour twice.
C30_WitnessHourTwice ==
    /\ calc.fn = "displayTable"
    /\ calc.full
    /\ calc.shift = 0 - 1
    /\ \E i \in 1..(hoursToShow - 1) :
           /\ calc.displayRecords[i].hour = calc.displayRecords[i + 1].hour
           /\ calc.displayRecords[i] \in calc.records

\* The instant a bound names, and the begin of the hour of a key, in minutes.
BoundTime(text) ==
    IF Len(text) = 1 THEN text[1] * 24 * 60
    ELSE text[1] * 24 * 60 + text[3] * 60 + text[4]

KeyTime(hourKey) == KeyHour(hourKey) * 60

\* The buckets of the cache whose hour is between the bounds, both included.
BetweenBounds ==
    {r \in roll.cached :
        /\ roll.since # <<>> => BoundTime(roll.since) <= KeyTime(r.hour)
        /\ roll.until # <<>> => KeyTime(r.hour) <= BoundTime(roll.until)}

\* C31: the records handed to the view are exactly the cached buckets whose
\* hour h satisfies since <= h <= until, a bound that is absent not
\* restricting.
C31_BoundsAreInclusive ==
    (roll.pc = "done" /\ roll.mode = "report") => roll.records = BetweenBounds

\* A bound written as the hour keys are, "YYYY-MM-DD HH:mm".
WrittenAsKeys(text) == text = <<>> \/ (Len(text) = 4 /\ text[2] = 32)

\* The same for the bounds that are written as the hour keys are.
C31_InclusiveForKeyFormat ==
    (roll.pc = "done" /\ roll.mode = "report"
     /\ WrittenAsKeys(roll.since) /\ WrittenAsKeys(roll.until))
        => roll.records = BetweenBounds

\* A bucket at the hour of since is handed on, one after until is not.
C31_WitnessBucketAtBound ==
    /\ roll.pc = "done" /\ roll.mode = "report"
    /\ roll.since = <<1, 32, 22, 0>>
    /\ roll.until = <<2, 32, 1, 30>>
    /\ \E r \in roll.records : r.hour = <<1, 22>>
    /\ \E r \in roll.cached \ roll.records : r.hour = <<2, 2>>

\* With since "day-2T01:00" the bucket of 02:00 of day 2 is not handed on.
C31_WitnessLaterBucketDropped ==
    /\ roll.pc = "done" /\ roll.mode = "report"
    /\ roll.since = <<2, 84, 1, 0>>
    /\ roll.until = <<>>
    /\ \E r \in roll.cached \ roll.records : r.hour = <<2, 2>>

\* The buckets between the bounds that are 0 to 4 hours before the hour of row.
BoundedWindowOf(row) ==
    {r \in BetweenBounds : HourTime(row.hour) - HourTime(r.hour) \in 0..4}

\* The rolling sums of every row are sums over buckets between the bounds.
SumsAreOfBoundedBuckets ==
    \A n \in 1..Len(roll.rows) :
        /\ roll.rows[n].rollingCost =
               SumOf(WindowOf(roll.rows[n]) \cap BoundedWindowOf(roll.rows[n]),
                     "cost")
        /\ roll.rows[n].rollingTokens =
               SumOf(WindowOf(roll.rows[n]) \cap BoundedWindowOf(roll.rows[n]),
                     "totalTokens")

\* C40: with a since or an until, a cached bucket whose hour is outside
\* [since, until] adds nothing to the rolling cost or tokens of any row, also
\* when it is within the 4 hours before the row.
C40_OutsideBucketsNeverCount ==
    (roll.pc = "done" /\ roll.mode = "report") => SumsAreOfBoundedBuckets

\* The same for the bounds that are written as the hour keys are.
C40_NeverCountForKeyFormat ==
    (roll.pc = "done" /\ roll.mode = "report"
     /\ WrittenAsKeys(roll.since) /\ WrittenAsKeys(roll.until))
        => SumsAreOfBoundedBuckets

\* A bucket after until, in the 4 hours before a row, and not in its sums.
C40_WitnessBucketLeftOut ==
    /\ roll.pc = "done" /\ roll.mode = "report"
    /\ roll.until = <<2, 32, 1, 30>>
    /\ roll.full
    /\ \E r \in roll.cached : r.hour = <<2, 2>>
    /\ \E n \in 1..Len(roll.rows) :
           /\ roll.rows[n].hour = <<2, 1>>
           /\ roll.rows[n].rollingCost > 0

\* With until "day-2T01:00" the bucket of 03:00 of day 2 is in the sums.
C40_WitnessOutsideBucketCounted ==
    /\ roll.pc = "done" /\ roll.mode = "report"
    /\ roll.until = <<2, 84, 1, 0>>
    /\ \E n \in 1..Len(roll.rows) :
           /\ roll.rows[n].hour = <<2, 3>>
           /\ roll.rows[n].rollingCost > 0

\* The cache was empty at the start of the process, and the incremental scans
\* have folded every fact of the logs since.
FoldedFromEmpty ==
    /\ cacheIds = foldCount
    /\ \A f \in FileSet : flm[f] = files[f].mtime
    /\ \A id \in Ids : HasNonZero(files, FileSet, id) => foldCount[id] = 1

\* The statistics of a set of records, restricted to the given fields.
StatsOn(records, fields) ==
    {[field \in fields \cup {"hour"} |-> r[field]] : r \in records}

\* C37: from an empty cache, the full scan of collect() and the incremental
\* scans without filter give the same hour keys and, for every hour, the same
\* inputTokens, outputTokens, totalTokens, cost and sessionCount.
C37_PathsAgree ==
    (last.op = "full" /\ last.wrote /\ FoldedFromEmpty)
        => StatsOn({store.lines[i] : i \in 1..Len(store.lines)}, GrowingFields)
               = StatsOn({cache[k] : k \in DOMAIN cache}, GrowingFields)

\* The two paths agree on everything but inputTokens.
C37_PathsAgreeButInputTokens ==
    (last.op = "full" /\ last.wrote /\ FoldedFromEmpty)
        => StatsOn({store.lines[i] : i \in 1..Len(store.lines)},
                   GrowingFields \ {"inputTokens"})
               = StatsOn({cache[k] : k \in DOMAIN cache},
                         GrowingFields \ {"inputTokens"})

\* Both paths ran over a log with a fact that carries cache tokens.
C37_WitnessCacheTokens ==
    /\ last.op = "full" /\ last.wrote /\ FoldedFromEmpty
    /\ \E i \in 1..Len(last.entries) :
           last.entries[i].usage.cache_read_input_tokens > 0

\* C32: the ticks of watch mode run one after the other. While a tick waits
\* for its write no scan can start, and the cache, the seen IDs and the
\* recorded modification times are changed by nothing but the scan of a tick
\* (or the start of the process): a tick finds them as the tick before left
\* them.
C32_TicksAreSequential ==
    /\ [][(<<cache, seen, flm>>' # <<cache, seen, flm>>)
             => /\ phase \in {"down", "ready"}
                /\ last'.op \in {"init", "scan", "collect"}]_vars
    /\ [](phase = "writing" => ~ENABLED TickScan)

\* Two ticks have each folded and written a fact, one after the other.
C32_Witness ==
    /\ phase = "ready"
    /\ last.op = "collect" /\ last.ret = 1 /\ last.wrote
    /\ \A id \in Ids : foldCount[id] = 1 /\ storeIds[id] = 1

\* C33: the modification time of a file is recorded only after the file was
\* read: a scan in which the read of a file fails leaves the recorded time of
\* that file as it was, so that the next scan reads the file.
C33_FailedReadIsNotRecorded ==
    [][last'.op = "collect"
        => \A f \in FileSet :
               files[f].fault = "read" => flm'[f] = flm[f]]_vars

\* What follows in the code: a file that can be read again, holds a fact no
\* scan has met and has not changed since its read failed, is left out by a
\* scan.
C33_WitnessNotReadAgain ==
    /\ last.op = "collect"
    /\ last.read = {}
    /\ \E f \in FileSet :
           /\ files[f].fault = "none"
           /\ flm[f] = files[f].mtime
           /\ \E i \in 1..Len(files[f].lines) :
                  /\ files[f].lines[i].id \notin seen
                  /\ cacheIds[files[f].lines[i].id] = 0

\* The same log files as readdir lists them in the other order: the scan
\* meets the content of the second file first.
OtherOrder(f) == IF f = Files[1] THEN Files[2] ELSE Files[1]

\* The cache a scan without filter leaves when it enumerates the files in
\* the other order.
CacheInOtherOrder ==
    FoldEntries(cache,
                loadClaudeDataIncremental([f \in FileSet |-> files[OtherOrder(f)]],
                                          [f \in FileSet |-> flm[OtherOrder(f)]],
                                          seen, NoFilter).entries, 1)

\* C34: the hourly statistics after a scan are the same for every order in
\* which the files are enumerated, also when a message ID is in both files.
C34_AnyFileOrder ==
    [][(last'.op = "collect" /\ last'.unfiltered) => cache' = CacheInOtherOrder]_vars

\* Every record of an ID is the same line, in whatever file it is.
DuplicatesAreEqual ==
    \A f, g \in FileSet : \A i \in 1..Len(files[f].lines) :
        \A j \in 1..Len(files[g].lines) :
            (IsUsageEntry(files[f].lines[i]) /\ IsUsageEntry(files[g].lines[j])
             /\ files[f].lines[i].id = files[g].lines[j].id)
                => files[f].lines[i] = files[g].lines[j]

\* The same when the records of an ID do not differ from one another.
C34_AnyOrderForEqualDuplicates ==
    [][(last'.op = "collect" /\ last'.unfiltered /\ DuplicatesAreEqual)
          => cache' = CacheInOtherOrder]_vars

\* A scan read both files, which hold the same ID at different hours, and
\* folded the record of the first file.
C34_WitnessIdInBothFiles ==
    /\ last.op = "collect" /\ last.unfiltered
    /\ last.read = FileSet
    /\ last.ret = 1
    /\ \E i \in 1..Len(files[Files[2]].lines) :
           /\ IsUsageEntry(files[Files[2]].lines[i])
           /\ HasTokens(files[Files[2]].lines[i].usage)
           /\ files[Files[2]].lines[i].id = last.entries[1].id
           /\ files[Files[2]].lines[i].timestamp # last.entries[1].timestamp

\* The lines a scan was presented with: those of the files it read, in the
\* order it read them.
RECURSIVE LinesRead(_, _, _)
LinesRead(fs, read, k) ==
    IF k > Len(Files) THEN <<>>
    ELSE (IF Files[k] \in read THEN fs[Files[k]].lines ELSE <<>>)
             \o LinesRead(fs, read, k + 1)

\* The facts of the first occurrences of the IDs not in ids among the lines
\* from the i-th on, in the order of these occurrences. With admitted, the
\* first occurrence of an ID is its first record that the time filter admits.
RECURSIVE FirstOccurrences(_, _, _, _, _)
FirstOccurrences(lines, i, ids, timeFilter, admitted) ==
    IF i > Len(lines) THEN <<>>
    ELSE LET line == lines[i]
             dropped == FilteredOut(line.timestamp, timeFilter)
         IN  IF ~IsUsageEntry(line) \/ line.id \in ids \/ (admitted /\ dropped)
             THEN FirstOccurrences(lines, i + 1, ids, timeFilter, admitted)
             ELSE (IF HasTokens(line.usage) /\ ~dropped
                   THEN <<EntryOf(line)>> ELSE <<>>)
                      \o FirstOccurrences(lines, i + 1, ids \cup {line.id},
                                          timeFilter, admitted)

C36_FilterOnlySelectsFacts ==
    [][last'.op = "collect"
        => LET plain == loadClaudeDataIncremental(files, flm, seen, NoFilter)
           IN  /\ last'.read = plain.read
               /\ flm' = plain.flm
               /\ ~last'.unfiltered =>
                      \A timeFilter \in TimeFilters \ {NoFilter} :
                          \A i \in 1..Len(last'.entries) :
                              /\ timeFilter.since # 0 =>
                                     last'.entries[i].timestamp >= timeFilter.since
                              /\ timeFilter.tail # 0 =>
                                     last'.entries[i].timestamp
                                         >= Now - timeFilter.tail * 60
      ]_vars

\* A scan with a filter read a file with a fact of 00:30 and one of 07:30,
\* recorded its modification time and folded the one of 07:30 only.
C36_Witness ==
    /\ last.op = "collect" /\ ~last.unfiltered
    /\ last.ret = 1
    /\ last.entries[1].timestamp = 450
    /\ \E f \in last.read :
           /\ flm[f] = files[f].mtime
           /\ \E i \in 1..Len(files[f].lines) :
                  /\ IsUsageEntry(files[f].lines[i])
                  /\ HasTokens(files[f].lines[i].usage)
                  /\ files[f].lines[i].timestamp = 30
                  /\ files[f].lines[i].id \notin seen

\* id is a candidate that the scans so far have dropped: a file that was
\* scanned at its present modification time holds a record of it, every
\* record of it has tokens, and it is neither seen nor in the cache.
DroppedCandidate(id) ==
    /\ phase = "ready"
    /\ id \notin seen
    /\ cacheIds[id] = 0
    /\ \E f \in FileSet : flm[f] = files[f].mtime /\ RecordsOf(files, f, id) # {}
    /\ \A f \in FileSet : \A i \in RecordsOf(files, f, id) :
           HasTokens(files[f].lines[i].usage)

\* C39: a candidate that the time filter of a scan dropped is folded by a
\* later scan whose filter admits it (here: a scan without filter), also when
\* its file has not been modified in between.
C39_DroppedCandidateFoldedLater ==
    [][(last'.op = "collect" /\ last'.unfiltered)
        => \A id \in Ids : DroppedCandidate(id) => foldCount'[id] = 1]_vars

\* The half that holds: a scan does not add to the seen IDs an ID of which it
\* folded nothing and whose records all have tokens.
C39_DroppedIdIsNotSeen ==
    [][last'.op = "collect"
        => \A id \in Ids \ seen :
               (/\ \A i \in 1..Len(last'.entries) : last'.entries[i].id # id
                /\ \A f \in FileSet : \A i \in RecordsOf(files, f, id) :
                       HasTokens(files[f].lines[i].usage))
                   => id \notin seen']_vars

\* A scan without filter left out a candidate that an earlier scan dropped.
C39_WitnessCandidateLeftOut ==
    /\ last.op = "collect" /\ last.unfiltered
    /\ \E id \in Ids : DroppedCandidate(id)

\* A fact of the log that no scan has folded or met.
Unfolded(id) ==
    /\ id \notin seen
    /\ foldCount[id] = 0
    /\ RecordsOf(files, Files[1], id) # {}

\* C38: whatever appends come between the stat of a file and its read, or
\* after its read, a fact appended is folded exactly once. No fact is folded
\* twice; a fact not folded yet is in a file that the scan is about to read
\* or that the next scan finds changed; and the read of a file folds every
\* fact in it that is not folded yet.
C38_AppendsRacingTheScan ==
    /\ [](\A id \in Ids : foldCount[id] <= 1)
    /\ []((phase \in {"ready", "reading"})
            => \A id \in Ids :
                   Unfolded(id)
                       => \/ phase = "reading"
                          \/ files[Files[1]].mtime > flm[Files[1]])
    /\ [][(phase = "reading" /\ last'.op = "collect")
            => \A id \in Ids : Unfolded(id) => foldCount'[id] = 1]_vars

\* A fact was appended between the stat and the read, the read folded it, and
\* the next scan read the file again, which had changed after the stat, and
\* folded nothing.
C38_Witness ==
    /\ phase = "ready"
    /\ last.op = "collect" /\ last.read = {Files[1]} /\ last.ret = 0
    /\ flm[Files[1]] = 2
    /\ Len(files[Files[1]].lines) = 2
    /\ \A id \in Ids : foldCount[id] = 1
====
